---- MODULE Spec2Model ----
(***************************************************************************)
(* A model of the Synology MCP server: the FileStation task operations     *)
(* (search, delete, move), path canonicalization, the session registry of  *)
(* the MCP server, the iSCSI LUN operations and the Download Station task  *)
(* creation.  A path is a sequence of one-character strings.  A backend    *)
(* call is one step; what the backend answers is chosen from the set of    *)
(* answers the request helper distinguishes.                               *)
(***************************************************************************)
EXTENDS Integers, Sequences, FiniteSets, TLC

VARIABLES
    fsOp,        \* the FileStation operation in progress: none, search, delete, move
    fsPc,        \* its position: idle, probe, start, poll, sleep, stop, done
    fsPath,      \* the path argument as given by the caller
    fsDest,      \* move: the destination_path argument as given by the caller
    fsRecursive, \* delete: the recursive flag sent with the start call
    fsTaskId,    \* task_id taken from the start response (0: none yet)
    fsWait,      \* wait_time, in poll intervals of 0.5 s
    fsLastPoll,  \* what the last status/list poll answered
    fsPending,   \* the result or exception that is pending while cleanup runs
    fsOutcome,   \* what the caller sees: none, ok, or the kind of the error raised
    fsStopRes,   \* what the stop call answered: none, ok, fail
    nProbe,      \* getinfo calls issued by the operation in progress
    nStart,      \* start calls issued
    nPoll,       \* status/list calls issued
    nStop,       \* stop calls issued
    stopTask,    \* the taskid the last stop call carried
    pathIn,      \* canonicalization: the input path
    pathOnce,    \* canonicalization: _format_path(pathIn)
    pathTwice,   \* canonicalization: _format_path(pathOnce)
    pathPc,      \* canonicalization: in, once, twice
    sessions,    \* MCP server: base_url -> session_id (0: no entry)
    authInst,    \* MCP server: the base_urls that have a SynologyAuth instance
    fsInst,      \* MCP server: base_url -> session_id held by the cached FileStation (0: none)
    dsInst,      \* MCP server: base_url -> session_id held by the cached DownloadStation
    nextSid,     \* backend: the session id the next successful login returns
    regLast,     \* MCP server: the last handler that ran and what it sent or stored
    regPhase,    \* MCP server: startup (before run() serves), serving, stopped
    regPrev,     \* history: per base_url, what the last successful login replaced
    sweepTodo,   \* cleanup_sessions: the snapshot's base_urls not yet visited
    sweepAll,    \* history: the base_urls of the snapshot taken by cleanup_sessions
    sweepTried,  \* history: the base_urls for which cleanup_sessions called auth.logout
    sweepResults,\* cleanup_sessions: cleanup_results, one record per appended line
    lunState,    \* backend: uuid -> absent, unmapped, mapped
    lunOp,       \* iSCSI: the last operation called
    lunArg,      \* iSCSI: its uuid argument
    lunOutcome,  \* iSCSI: what its caller saw
    lunWasMapped,\* iSCSI: whether the LUN was mapped when the operation was called
    lunReqs,     \* iSCSI: the requests the operation issued, in order
    dsExists,    \* backend: the shared folders that exist as directories
    dsPreferred, \* Download Station: preferred_default_destination
    dsOp,        \* Download Station: the operation in progress
    dsPc,        \* its position: idle, default, validate, suggest, create2, create1, done
    dsArg,       \* create_task: the destination argument ("": none given)
    dsDest,      \* create_task: the destination in use
    dsIdx,       \* position in the list of common destinations being probed
    dsSuggest,   \* create_task: available_suggestions
    dsProbeSaw,  \* what the backend answered to the probe of the destination in use
    dsV2Err,     \* create_task: the error of the version 2 create call
    dsOutcome,   \* what the caller sees
    nDsProbe,    \* getinfo probes issued by the operation in progress
    dsCreates,   \* the API versions of the create calls issued, in order
    dsProbeFailed, \* history: a probe of the suggestion loop was not answered
    dsLists,     \* the API versions of the list calls issued, in order
    dsDefaultSaw, \* get_default_destination: what its probes reported, in order
    loopOwner,   \* event loop: the tool call it is running (0: none)
    tkPc,        \* tool call -> idle, ready, login, status, get, start, poll, sleep, stop
    tkKind,      \* tool call -> the tool called
    tkEp,        \* tool call -> its base_url
    tkTok,       \* tool call -> the session_id of the FileStation instance it holds
    tkPolls,     \* tool call -> the poll calls it has made
    loopStale,   \* history: a request carried a session_id the registry no longer holds
    envHelper,   \* request helper: the module whose helper received the response
    envResp,     \* request helper: the JSON envelope the backend answered
    envPc,       \* request helper: idle, in, done
    envRaised,   \* request helper: whether it raised
    envMsg,      \* request helper: the message of the exception raised
    callName,    \* tool call: the tool name the shell sent
    callEntry,   \* tool call: handle_call_tool or call_tool_direct
    callDoes,    \* tool call: what the handler does: returns, or the exception it raises
    callPc,      \* tool call: idle, in, handler, done
    callOut,     \* tool call: what the shell gets
    opName,      \* backend operation: the method called
    opArgA,      \* backend operation: its path argument
    opArgB,      \* backend operation: its name or second path argument
    opPc,        \* backend operation: idle, check, send, done
    opIdx,       \* backend operation: the call site reached
    opSent,      \* backend operation: the requests sent, each with its HTTP verb
    opOutcome    \* backend operation: what the caller sees

fsVars == <<fsOp, fsPc, fsPath, fsDest, fsRecursive, fsTaskId, fsWait, fsLastPoll,
            fsPending, fsOutcome, fsStopRes, nProbe, nStart, nPoll, nStop, stopTask>>
pathVars == <<pathIn, pathOnce, pathTwice, pathPc>>
sweepVars == <<sweepTodo, sweepAll, sweepTried, sweepResults>>
regVars == <<sessions, authInst, fsInst, dsInst, nextSid, regLast, regPhase, regPrev,
             sweepVars>>
lunVars == <<lunState, lunOp, lunArg, lunOutcome, lunWasMapped, lunReqs>>
dsVars == <<dsExists, dsPreferred, dsOp, dsPc, dsArg, dsDest, dsIdx, dsSuggest,
            dsProbeSaw, dsV2Err, dsOutcome, nDsProbe, dsCreates, dsProbeFailed,
            dsLists, dsDefaultSaw>>
loopVars == <<loopOwner, tkPc, tkKind, tkEp, tkTok, tkPolls, loopStale>>
envVars == <<envHelper, envResp, envPc, envRaised, envMsg>>
callVars == <<callName, callEntry, callDoes, callPc, callOut>>
opVars == <<opName, opArgA, opArgB, opPc, opIdx, opSent, opOutcome>>
vars == <<fsVars, pathVars, regVars, lunVars, dsVars, loopVars, envVars, callVars, opVars>>
\* what the FileStation operations leave alone, and so on for each component
notFs == <<pathVars, regVars, lunVars, dsVars, loopVars, envVars, callVars, opVars>>
notPath == <<fsVars, regVars, lunVars, dsVars, loopVars, envVars, callVars, opVars>>
notReg == <<fsVars, pathVars, lunVars, dsVars, loopVars, envVars, callVars, opVars>>
notLun == <<fsVars, pathVars, regVars, dsVars, loopVars, envVars, callVars, opVars>>
notDs == <<fsVars, pathVars, regVars, lunVars, loopVars, envVars, callVars, opVars>>
\* what the tool calls on the event loop leave alone besides the registry
notLoop == <<fsVars, pathVars, lunVars, dsVars, envVars, callVars, opVars>>
notEnv == <<fsVars, pathVars, regVars, lunVars, dsVars, loopVars, callVars, opVars>>
notCall == <<fsVars, pathVars, regVars, lunVars, dsVars, loopVars, envVars, opVars>>
notOp == <<fsVars, pathVars, regVars, lunVars, dsVars, loopVars, envVars, callVars>>

(***************************************************************************)
(* Bounds of the model.                                                    *)
(***************************************************************************)
\* search polls "not finished" answers the model lets the backend give
MaxSearchPolls == 3
\* task ids the backend hands out: 1..MaxTaskId
MaxTaskId == 2
\* successful logins the model lets the backend grant
MaxLogins == 3
\* "not finished" answers a poll loop on the event loop is given
MaxLoopPolls == 2
\* longest nested error list of a generated envelope
MaxErrors == 2
\* longest generated input path of the canonicalization check
MaxPathLen == 4
\* longest generated name argument of rename_file and create_directory
MaxNameLen == 2

(***************************************************************************)
(* Program constants.                                                      *)
(***************************************************************************)
\* max_wait_time of delete, in seconds
DeleteMaxWait == 120
\* max_wait_time of move, in seconds
MoveMaxWait == 60
\* time.sleep(0.5): poll intervals per second
PollsPerSecond == 2

(***************************************************************************)
(* Paths.                                                                  *)
(***************************************************************************)
Slash == "/"
\* U+0301, the combining acute accent, and U+00E9, which NFC composes from e + U+0301
CombAcute == "U+0301"
EAcute == "U+00E9"

RECURSIVE RStripSlash(_)
\* str.rstrip('/'): every trailing slash is removed
RStripSlash(p) ==
    IF p # <<>> /\ p[Len(p)] = Slash THEN RStripSlash(SubSeq(p, 1, Len(p) - 1)) ELSE p

RECURSIVE NFC(_)
\* unicodedata.normalize('NFC', path) on the modelled alphabet: a base letter
\* followed by its combining mark becomes the precomposed letter
NFC(p) ==
    IF Len(p) < 2 THEN p
    ELSE IF p[1] = "e" /\ p[2] = CombAcute
         THEN <<EAcute>> \o NFC(SubSeq(p, 3, Len(p)))
         ELSE <<p[1]>> \o NFC(Tail(p))

StartsWith(p, q) == Len(q) <= Len(p) /\ SubSeq(p, 1, Len(q)) = q

EndsWithSlash(p) == p # <<>> /\ p[Len(p)] = Slash

FormatPath(path) ==
    LET p1 == IF ~StartsWith(path, <<Slash>>) THEN <<Slash>> \o path ELSE path
        p2 == IF p1 # <<Slash>> /\ EndsWithSlash(p1) THEN RStripSlash(p1) ELSE p1
    IN NFC(p2)

Root == <<Slash>>

CriticalPaths ==
    { <<"/","v","o","l","u","m","e","1">>, <<"/","h","o","m","e","s">>,
      <<"/","v","a","r">>, <<"/","e","t","c">>, <<"/","u","s","r">>,
      <<"/","b","i","n">>, <<"/","s","b","i","n">> }

(***************************************************************************)
(* FileStation: search_files, delete, move_file.                           *)
(***************************************************************************)
P_root == <<"/">>
P_empty == <<>>
P_slashes == <<"/","/">>
P_etc == <<"/","e","t","c">>
P_etc_rel == <<"e","t","c">>
P_etc_trail == <<"/","e","t","c","/","/">>
P_etc_x == <<"/","e","t","c","/","x">>
P_var == <<"/","v","a","r">>
P_variable == <<"/","v","a","r","i","a","b","l","e">>
P_volume1 == <<"/","v","o","l","u","m","e","1">>
P_volume1_data == <<"/","v","o","l","u","m","e","1","/","d">>
P_homes == <<"/","h","o","m","e","s">>
P_usr == <<"/","u","s","r">>
P_bin == <<"/","b","i","n">>
P_sbin == <<"/","s","b","i","n">>
P_data == <<"/","d">>
P_data_rel == <<"d","/">>
P_accent == <<"/","e","U+0301">>

\* the path arguments the caller gives to delete
DeletePaths ==
    { P_root, P_empty, P_slashes, P_etc, P_etc_rel, P_etc_trail, P_etc_x, P_var,
      P_variable, P_volume1, P_volume1_data, P_homes, P_usr, P_bin, P_sbin, P_data,
      P_data_rel, P_accent }

\* the path arguments the caller gives to search and move
OtherPaths == { P_root, P_slashes, P_data, P_data_rel }

\* what a getinfo call answers: a directory, a file, no file entry, or an error
ProbeResponses == { "dir", "file", "empty", "backend_error", "transport_error" }

TaskIds == 1 .. MaxTaskId

\* what a start call answers: a task id, a success envelope without taskid, or an error
StartResponses ==
    { [kind |-> "task", taskid |-> i] : i \in TaskIds }
    \cup { [kind |-> k, taskid |-> 0] : k \in {"notask", "backend_error", "transport_error"} }

\* what a status/list call answers: the finished flag with or without an error
\* field in the data, or an error raised by the request helper
PollResponses ==
    { "notfinished", "notfinished_error", "finished", "finished_error",
      "backend_error", "transport_error" }

StopResponses == { "ok", "fail" }

\* the error _make_request raises for an answer, "none" when it returns data
RequestError(resp) ==
    CASE resp = "backend_error" -> "BackendError"
      [] resp = "transport_error" -> "TransportError"
      [] OTHER -> "none"

DeleteRefusedByPrefix(formatted_path) ==
    \/ formatted_path = <<>>
    \/ formatted_path = Root
    \/ \E critical_path \in CriticalPaths : StartsWith(formatted_path, critical_path)

DeleteRefusedRootOnly(formatted_path) == formatted_path = <<>> \/ formatted_path = Root

\* delete: the checks made before any request
DeleteRefused(formatted_path) ==
    \/ formatted_path = <<>>
    \/ formatted_path = Root
    \/ /\ \E critical_path \in CriticalPaths : StartsWith(formatted_path, critical_path)
       /\ formatted_path \in CriticalPaths

\* move_file: the checks made before any request
MoveRefused(formatted_source, formatted_dest) ==
    \/ formatted_source = <<>> \/ formatted_source = Root
    \/ formatted_dest = <<>> \/ formatted_dest = Root

ProbedDirectoryUnlessFile(resp) == resp # "file"

\* delete's auto-detection: recursive is true when get_file_info returned the
\* type 'directory', false when it returned 'file' or raised
ProbedDirectory(resp) == resp = "dir"

MaxWaitOfDelete(op) == DeleteMaxWait * PollsPerSecond

HasTimeoutAlways(op) == TRUE

\* whether the poll loop counts wait_time against a max_wait_time: the loops of
\* delete and move_file do, the loop of search_files is `while True`
HasTimeout(op) == op # "search"

\* max_wait_time in poll intervals
MaxWait(op) ==
    IF op = "delete" THEN DeleteMaxWait * PollsPerSecond ELSE MoveMaxWait * PollsPerSecond

\* what one pass of the poll loop decides from the answer: continue (sleep and
\* poll again), ok (return), or the kind of the exception raised
PollVerdict(op, resp) ==
    IF RequestError(resp) # "none" THEN RequestError(resp)
    ELSE IF op = "search"
         THEN IF resp \in {"finished", "finished_error"} THEN "ok" ELSE "continue"
         ELSE IF resp \in {"finished", "finished_error"}
              THEN IF resp = "finished_error" THEN "TaskFailed" ELSE "ok"
              ELSE "continue"

StopsOnReturnNever(op) == FALSE

\* whether the stop call is made when the loop returns: search wraps the loop in
\* try/finally, delete and move in try/except
StopsOnReturn(op) == op = "search"

StopsOnRaiseNotTimeout(op, err) == err # "TaskTimedOut"

StopsOnRaiseNotRequest(op, err) == err \notin {"BackendError", "TransportError"}

\* whether the stop call is made when the exception err leaves the loop
StopsOnRaise(op, err) == TRUE

AfterStopRaises(pending, stopRes) == IF stopRes = "fail" THEN "StopError" ELSE pending

\* what reaches the caller after the stop call answered stopRes
AfterStop(pending, stopRes) == pending

FsIdle ==
    /\ fsOp = "none" /\ fsPc = "idle" /\ fsPath = <<>> /\ fsDest = <<>>
    /\ fsRecursive = FALSE /\ fsTaskId = 0 /\ fsWait = 0 /\ fsLastPoll = "none"
    /\ fsPending = "none" /\ fsOutcome = "none" /\ fsStopRes = "none"
    /\ nProbe = 0 /\ nStart = 0 /\ nPoll = 0 /\ nStop = 0 /\ stopTask = 0

PathIdle ==
    pathIn = <<>> /\ pathOnce = <<>> /\ pathTwice = <<>> /\ pathPc = "idle"

Endpoints == { "nas1", "nas2" }

NoEvent == [kind |-> "none", ep |-> "none", sid |-> 0, ans |-> "none"]

NoPrev == [tok |-> 0, fs |-> 0, ds |-> 0]

\* SynologyMCPServer.__init__: empty registries
RegIdle ==
    /\ sessions = [e \in Endpoints |-> 0]
    /\ authInst = {}
    /\ fsInst = [e \in Endpoints |-> 0]
    /\ dsInst = [e \in Endpoints |-> 0]
    /\ nextSid = 1
    /\ regLast = NoEvent
    /\ regPhase = "startup"
    /\ regPrev = [e \in Endpoints |-> NoPrev]
    /\ sweepTodo = {} /\ sweepAll = {} /\ sweepTried = {} /\ sweepResults = <<>>

Luns == { "lun1", "lun2" }

LunIdle ==
    /\ lunOp = "none" /\ lunArg = "none" /\ lunOutcome = "none"
    /\ lunWasMapped = FALSE /\ lunReqs = <<>>

\* the state of a Download Station instance between two operations
DsBetween ==
    /\ dsOp = "none" /\ dsPc = "idle" /\ dsArg = "" /\ dsDest = "" /\ dsIdx = 0
    /\ dsSuggest = <<>> /\ dsProbeSaw = "none" /\ dsV2Err = "none"
    /\ dsOutcome = "none" /\ nDsProbe = 0 /\ dsCreates = <<>>
    /\ dsProbeFailed = FALSE /\ dsLists = <<>> /\ dsDefaultSaw = <<>>

\* SynologyDownloadStation.__init__, against a NAS without shared folders
DsIdle == DsBetween /\ dsPreferred = "downloads" /\ dsExists = {}

\* the tool calls the shell has in flight at once
Tasks == { 1, 2 }

\* no tool call has arrived
LoopIdle ==
    /\ loopOwner = 0
    /\ tkPc = [t \in Tasks |-> "idle"] /\ tkKind = [t \in Tasks |-> "none"]
    /\ tkEp = [t \in Tasks |-> "none"] /\ tkTok = [t \in Tasks |-> 0]
    /\ tkPolls = [t \in Tasks |-> 0]
    /\ loopStale = FALSE

NoEnvelope == [success |-> TRUE, code |-> "none", errors |-> <<>>]

NoMessage == [prefix |-> "none", code |-> "none", text |-> "none", details |-> <<>>]

\* no response is being handled
EnvIdle ==
    /\ envHelper = "none" /\ envResp = NoEnvelope /\ envPc = "idle"
    /\ envRaised = FALSE /\ envMsg = NoMessage

NoOutput == [kind |-> "none", text |-> <<>>]

\* no tool call is being dispatched
CallIdle ==
    /\ callName = "none" /\ callEntry = "none" /\ callDoes = "none"
    /\ callPc = "idle" /\ callOut = NoOutput

\* no backend operation is being followed call by call
OpIdle ==
    /\ opName = "none" /\ opArgA = <<>> /\ opArgB = <<>>
    /\ opPc = "idle" /\ opIdx = 0 /\ opSent = <<>> /\ opOutcome = "none"

\* every component but the named one in its initial state
LunRest == LunIdle /\ lunState = [u \in Luns |-> "absent"]

Init == FsIdle /\ PathIdle /\ RegIdle /\ LunRest /\ DsIdle /\ LoopIdle /\ EnvIdle /\ CallIdle /\ OpIdle

\* the operation ends with `result` without a pending cleanup, or goes to the stop call
StartInsideTryForSearch(op) == op = "search"

\* whether the start call and the task id check are covered by the try block
\* that issues the stop call: in all three operations they precede it
StartInsideTry(op) == FALSE

LeaveAndPollAgain(result, stops) ==
    /\ fsPending' = result
    /\ fsPc' = "poll" /\ fsOutcome' = fsOutcome

Leave(result, stops) ==
    /\ fsPending' = result
    /\ IF stops
       THEN fsPc' = "stop" /\ fsOutcome' = fsOutcome
       ELSE fsPc' = "done" /\ fsOutcome' = result

CallSearch(path) ==
    /\ fsPc = "idle"
    /\ fsOp' = "search" /\ fsPath' = path /\ fsPc' = "start"
    /\ UNCHANGED <<fsDest, fsRecursive, fsTaskId, fsWait, fsLastPoll, fsPending,
                   fsOutcome, fsStopRes, nProbe, nStart, nPoll, nStop, stopTask>>
    /\ UNCHANGED notFs

CallDelete(path) ==
    /\ fsPc = "idle"
    /\ fsOp' = "delete" /\ fsPath' = path
    /\ IF DeleteRefused(FormatPath(path))
       THEN fsPc' = "done" /\ fsOutcome' = "ValidationError"
            /\ fsPending' = "ValidationError"
       ELSE fsPc' = "probe" /\ UNCHANGED <<fsOutcome, fsPending>>
    /\ UNCHANGED <<fsDest, fsRecursive, fsTaskId, fsWait, fsLastPoll,
                   fsStopRes, nProbe, nStart, nPoll, nStop, stopTask>>
    /\ UNCHANGED notFs

CallMove(source_path, destination_path) ==
    /\ fsPc = "idle"
    /\ fsOp' = "move" /\ fsPath' = source_path /\ fsDest' = destination_path
    /\ IF MoveRefused(FormatPath(source_path), FormatPath(destination_path))
       THEN fsPc' = "done" /\ fsOutcome' = "ValidationError"
            /\ fsPending' = "ValidationError"
       ELSE fsPc' = "start" /\ UNCHANGED <<fsOutcome, fsPending>>
    /\ UNCHANGED <<fsRecursive, fsTaskId, fsWait, fsLastPoll,
                   fsStopRes, nProbe, nStart, nPoll, nStop, stopTask>>
    /\ UNCHANGED notFs

\* delete: get_file_info inside try/except decides the recursive flag
DeleteProbe(resp) ==
    /\ fsPc = "probe"
    /\ nProbe' = nProbe + 1
    /\ fsRecursive' = ProbedDirectory(resp)
    /\ fsPc' = "start"
    /\ UNCHANGED <<fsOp, fsPath, fsDest, fsTaskId, fsWait, fsLastPoll, fsPending,
                   fsOutcome, fsStopRes, nStart, nPoll, nStop, stopTask>>
    /\ UNCHANGED notFs

\* the start call and the task_id check, made outside the try block
StartTask(resp) ==
    /\ fsPc = "start"
    /\ nStart' = nStart + 1
    /\ IF resp.kind = "task"
       THEN /\ fsTaskId' = resp.taskid /\ fsPc' = "poll"
            /\ UNCHANGED <<fsPending, fsOutcome>>
       ELSE /\ fsTaskId' = fsTaskId
            /\ Leave(IF resp.kind = "notask" THEN "TaskStartFailed"
                     ELSE RequestError(resp.kind),
                     StartInsideTry(fsOp))
    /\ UNCHANGED <<fsOp, fsPath, fsDest, fsRecursive, fsWait, fsLastPoll,
                   fsStopRes, nProbe, nPoll, nStop, stopTask>>
    /\ UNCHANGED notFs

\* one status (delete, move) or list (search) call and the checks on its answer
Poll(resp) ==
    /\ fsPc = "poll"
    /\ fsOp = "search" /\ PollVerdict(fsOp, resp) = "continue"
           => nPoll < MaxSearchPolls
    /\ nPoll' = nPoll + 1
    /\ fsLastPoll' = resp
    /\ LET v == PollVerdict(fsOp, resp) IN
         IF v = "continue"
         THEN fsPc' = "sleep" /\ UNCHANGED <<fsPending, fsOutcome>>
         ELSE IF v = "ok" THEN Leave("ok", StopsOnReturn(fsOp))
         ELSE Leave(v, StopsOnRaise(fsOp, v))
    /\ UNCHANGED <<fsOp, fsPath, fsDest, fsRecursive, fsTaskId, fsWait,
                   fsStopRes, nProbe, nStart, nStop, stopTask>>
    /\ UNCHANGED notFs

\* time.sleep(0.5), wait_time += 0.5 and the loop condition; search keeps no
\* wait_time and loops while True
Sleep ==
    /\ fsPc = "sleep"
    /\ IF ~HasTimeout(fsOp)
       THEN fsWait' = fsWait /\ fsPc' = "poll" /\ UNCHANGED <<fsPending, fsOutcome>>
       ELSE /\ fsWait' = fsWait + 1
            /\ IF fsWait + 1 < MaxWait(fsOp)
               THEN fsPc' = "poll" /\ UNCHANGED <<fsPending, fsOutcome>>
               ELSE Leave("TaskTimedOut", StopsOnRaise(fsOp, "TaskTimedOut"))
    /\ UNCHANGED <<fsOp, fsPath, fsDest, fsRecursive, fsTaskId, fsLastPoll,
                   fsStopRes, nProbe, nStart, nPoll, nStop, stopTask>>
    /\ UNCHANGED notFs

\* the stop call inside try/except-pass, then the pending return or raise
StopTask(resp) ==
    /\ fsPc = "stop"
    /\ nStop' = nStop + 1
    /\ stopTask' = fsTaskId
    /\ fsStopRes' = resp
    /\ fsOutcome' = AfterStop(fsPending, resp)
    /\ fsPc' = "done"
    /\ UNCHANGED <<fsOp, fsPath, fsDest, fsRecursive, fsTaskId, fsWait, fsLastPoll,
                   fsPending, nProbe, nStart, nPoll>>
    /\ UNCHANGED notFs

\* the call has returned to the handler; the next call starts from scratch
FsReturn ==
    /\ fsPc = "done"
    /\ fsOp' = "none" /\ fsPc' = "idle" /\ fsPath' = <<>> /\ fsDest' = <<>>
    /\ fsRecursive' = FALSE /\ fsTaskId' = 0 /\ fsWait' = 0 /\ fsLastPoll' = "none"
    /\ fsPending' = "none" /\ fsOutcome' = "none" /\ fsStopRes' = "none"
    /\ nProbe' = 0 /\ nStart' = 0 /\ nPoll' = 0 /\ nStop' = 0 /\ stopTask' = 0
    /\ UNCHANGED notFs

Next ==
    \/ \E path \in OtherPaths : CallSearch(path)
    \/ \E path \in DeletePaths : CallDelete(path)
    \/ \E s \in OtherPaths, d \in OtherPaths : CallMove(s, d)
    \/ \E resp \in ProbeResponses : DeleteProbe(resp)
    \/ \E resp \in StartResponses : StartTask(resp)
    \/ \E resp \in PollResponses : Poll(resp)
    \/ Sleep
    \/ \E resp \in StopResponses : StopTask(resp)
    \/ FsReturn

Spec == Init /\ [][Next]_vars

(***************************************************************************)
(* The FileStation operations with an interrupt from outside: a            *)
(* KeyboardInterrupt raised in time.sleep while the operation waits        *)
(* between two polls.  A cancellation of the coroutine cannot reach the    *)
(* blocking loop.                                                          *)
(***************************************************************************)
\* whether the stop call is made when a KeyboardInterrupt leaves the loop: the
\* finally of search runs for every exception, the `except Exception` of delete
\* and move does not match it
AbortStops(op) == op = "search"

Abort ==
    /\ fsPc = "sleep"
    /\ Leave("Interrupted", AbortStops(fsOp))
    /\ UNCHANGED <<fsOp, fsPath, fsDest, fsRecursive, fsTaskId, fsWait, fsLastPoll,
                   fsStopRes, nProbe, nStart, nPoll, nStop, stopTask>>
    /\ UNCHANGED notFs

NextAbort == Next \/ Abort

SpecAbort == Init /\ [][NextAbort]_vars

\* the FileStation operations on a backend that does not answer "not finished"
\* for ever and a process that is not stopped in the middle of a call
FairFs ==
    /\ WF_vars(Sleep)
    /\ WF_vars(\E resp \in StopResponses : StopTask(resp))
    /\ SF_vars(Poll("finished"))

SpecFair == Init /\ [][Next]_vars /\ FairFs

(***************************************************************************)
(* Path canonicalization on its own: _format_path applied once and twice.  *)
(***************************************************************************)
PathChars == { Slash, "e", CombAcute, "d" }

PathInputs == UNION { [1 .. n -> PathChars] : n \in 0 .. MaxPathLen } \cup DeletePaths

InitPath ==
    /\ FsIdle /\ RegIdle /\ LunRest /\ DsIdle /\ LoopIdle /\ EnvIdle /\ CallIdle /\ OpIdle
    /\ pathIn \in PathInputs /\ pathOnce = <<>> /\ pathTwice = <<>> /\ pathPc = "in"

FormatOnce ==
    /\ pathPc = "in"
    /\ pathOnce' = FormatPath(pathIn) /\ pathPc' = "once"
    /\ UNCHANGED <<pathIn, pathTwice>>
    /\ UNCHANGED notPath

FormatTwice ==
    /\ pathPc = "once"
    /\ pathTwice' = FormatPath(pathOnce) /\ pathPc' = "twice"
    /\ UNCHANGED <<pathIn, pathOnce>>
    /\ UNCHANGED notPath

NextPath == FormatOnce \/ FormatTwice

SpecPath == InitPath /\ [][NextPath]_vars

(***************************************************************************)
(* The MCP server's session registry: login, logout, capability calls.     *)
(***************************************************************************)
\* config.get_synology_config()['base_url'], the endpoint of the auto-login
ConfigEndpoint == "nas1"

LoginResponses == { "ok", "rejected" }

\* what auth.logout does: it answers success, or an error with this code, or it
\* raises
LogoutResponses == { "ok", "105", "106", "no_session", "other", "raises" }

\* the error codes of a logout that mean the session was already gone
ExpiredCodes == { "105", "106", "no_session" }

KeepInstance(inst, ep) == inst

\* del self.filestation_instances[base_url] (and the DownloadStation's), if present
DropInstance(inst, ep) == [inst EXCEPT ![ep] = 0]

HasSessionAlways(ep) == TRUE

\* base_url in self.sessions
HasSession(ep) == sessions[ep] # 0

\* _get_filestation / _get_downloadstation below the session check: the cached
\* instance, or a new one built with sessions[base_url]
GetInstance(inst, ep) ==
    IF inst[ep] = 0 THEN [inst EXCEPT ![ep] = sessions[ep]] ELSE inst

LogoutVerdictStrict(resp) ==
    IF resp = "ok" THEN "logout_ok" ELSE "logout_failed"

\* _handle_logout: what it makes of the answer of auth.logout
LogoutVerdict(resp) ==
    CASE resp = "ok" -> "logout_ok"
      [] resp \in ExpiredCodes -> "logout_expired"
      [] resp = "raises" -> "logout_raised"
      [] OTHER -> "logout_failed"

\* cleanup_sessions: the line it appends to cleanup_results for the answer
CleanupVerdict(resp) ==
    CASE resp = "ok" -> "logged_out"
      [] resp \in ExpiredCodes -> "expired"
      [] resp = "raises" -> "exception"
      [] OTHER -> "failed"

SweepRestUnlessRaised(todo, ep, resp) ==
    IF resp = "raises" THEN {} ELSE todo \ {ep}

\* the for loop of cleanup_sessions goes on with the rest of the snapshot
\* whatever the logout of this endpoint did
SweepRest(todo, ep, resp) == todo \ {ep}

\* a successful login or auto-login: the session is stored and the cached
\* instances of the endpoint are cleared
StoreSession(ep, kind) ==
    /\ nextSid <= MaxLogins
    /\ sessions' = [sessions EXCEPT ![ep] = nextSid]
    /\ fsInst' = DropInstance(fsInst, ep)
    /\ dsInst' = DropInstance(dsInst, ep)
    /\ nextSid' = nextSid + 1
    /\ regLast' = [kind |-> kind, ep |-> ep, sid |-> nextSid, ans |-> "ok"]
    /\ regPrev' = [regPrev EXCEPT
                     ![ep] = [tok |-> sessions[ep], fs |-> fsInst[ep], ds |-> dsInst[ep]]]

\* run(): _auto_login_if_configured before the server serves; a failed
\* auto-login raises and the server never starts
AutoLogin(resp) ==
    /\ regPhase = "startup"
    /\ authInst' = authInst \cup {ConfigEndpoint}
    /\ IF resp = "ok"
       THEN StoreSession(ConfigEndpoint, "autologin_ok") /\ regPhase' = "serving"
       ELSE /\ regLast' = [kind |-> "autologin_fail", ep |-> ConfigEndpoint, sid |-> 0,
                           ans |-> resp]
            /\ regPhase' = "stopped"
            /\ UNCHANGED <<sessions, fsInst, dsInst, nextSid, regPrev>>
    /\ UNCHANGED sweepVars
    /\ UNCHANGED notReg

\* run() with auto-login disabled or no credentials configured
StartServing ==
    /\ regPhase = "startup"
    /\ regPhase' = "serving"
    /\ UNCHANGED <<sessions, authInst, fsInst, dsInst, nextSid, regLast, regPrev>>
    /\ UNCHANGED sweepVars
    /\ UNCHANGED notReg

LoginStoresAlways(resp) == TRUE

\* `if result.get("success")`: only a successful login touches the registries
LoginStores(resp) == resp = "ok"

Login(ep, resp) ==
    /\ regPhase = "serving"
    /\ authInst' = authInst \cup {ep}
    /\ IF LoginStores(resp)
       THEN StoreSession(ep, "login_ok")
       ELSE /\ regLast' = [kind |-> "login_fail", ep |-> ep, sid |-> 0, ans |-> resp]
            /\ UNCHANGED <<sessions, fsInst, dsInst, nextSid, regPrev>>
    /\ UNCHANGED regPhase
    /\ UNCHANGED sweepVars
    /\ UNCHANGED notReg

\* _handle_logout: the local data of the endpoint is deleted when auth.logout
\* answered success or one of the expired codes, and kept otherwise
Logout(ep, resp) ==
    /\ regPhase = "serving"
    /\ IF ~HasSession(ep)
       THEN /\ regLast' = [kind |-> "logout_nosession", ep |-> ep, sid |-> 0,
                           ans |-> "none"]
            /\ UNCHANGED <<sessions, fsInst, dsInst>>
       ELSE /\ regLast' = [kind |-> LogoutVerdict(resp), ep |-> ep, sid |-> sessions[ep],
                           ans |-> resp]
            /\ IF LogoutVerdict(resp) \in {"logout_ok", "logout_expired"}
               THEN /\ sessions' = [sessions EXCEPT ![ep] = 0]
                    /\ fsInst' = DropInstance(fsInst, ep)
                    /\ dsInst' = DropInstance(dsInst, ep)
               ELSE UNCHANGED <<sessions, fsInst, dsInst>>
    /\ UNCHANGED <<authInst, nextSid, regPhase, regPrev>>
    /\ UNCHANGED sweepVars
    /\ UNCHANGED notReg

\* a FileStation tool handler: _get_filestation, then a request carrying the
\* instance's session_id as _sid
FileStationCall(ep) ==
    /\ regPhase = "serving"
    /\ IF ~HasSession(ep)
       THEN /\ regLast' = [kind |-> "call_nosession", ep |-> ep, sid |-> 0, ans |-> "none"]
            /\ UNCHANGED fsInst
       ELSE /\ fsInst' = GetInstance(fsInst, ep)
            /\ regLast' = [kind |-> "call_fs", ep |-> ep, sid |-> fsInst'[ep],
                           ans |-> "none"]
    /\ UNCHANGED <<sessions, authInst, dsInst, nextSid, regPhase, regPrev>>
    /\ UNCHANGED sweepVars
    /\ UNCHANGED notReg

\* a Download Station tool handler, likewise
DownloadStationCall(ep) ==
    /\ regPhase = "serving"
    /\ IF ~HasSession(ep)
       THEN /\ regLast' = [kind |-> "call_nosession", ep |-> ep, sid |-> 0, ans |-> "none"]
            /\ UNCHANGED dsInst
       ELSE /\ dsInst' = GetInstance(dsInst, ep)
            /\ regLast' = [kind |-> "call_ds", ep |-> ep, sid |-> dsInst'[ep],
                           ans |-> "none"]
    /\ UNCHANGED <<sessions, authInst, fsInst, nextSid, regPhase, regPrev>>
    /\ UNCHANGED sweepVars
    /\ UNCHANGED notReg

\* run(): the server stops serving; the finally block calls cleanup_sessions when
\* the registry holds a session, and the loop works on a snapshot of the registry
Shutdown ==
    /\ regPhase = "serving"
    /\ LET snapshot == { e \in Endpoints : HasSession(e) }
       IN /\ regPhase' = IF snapshot = {} THEN "stopped" ELSE "sweep"
          /\ sweepTodo' = snapshot /\ sweepAll' = snapshot
    /\ sweepTried' = {} /\ sweepResults' = <<>>
    /\ UNCHANGED <<sessions, authInst, fsInst, dsInst, nextSid, regLast, regPrev>>
    /\ UNCHANGED notReg

\* one pass of the loop of cleanup_sessions: logout, one line of the summary, and
\* the local data cleared unless an exception took the pass to its except branch
SweepStep(ep, resp) ==
    /\ regPhase = "sweep"
    /\ ep \in sweepTodo
    /\ IF ep \in authInst
       THEN /\ sweepTried' = sweepTried \cup {ep}
            /\ sweepResults' = Append(sweepResults,
                                 [ep |-> ep, ans |-> resp, line |-> CleanupVerdict(resp)])
       ELSE UNCHANGED <<sweepTried, sweepResults>>
    /\ IF ep \in authInst /\ resp = "raises"
       THEN UNCHANGED <<sessions, fsInst, dsInst>>
       ELSE /\ sessions' = [sessions EXCEPT ![ep] = 0]
            /\ fsInst' = DropInstance(fsInst, ep)
            /\ dsInst' = DropInstance(dsInst, ep)
    /\ sweepTodo' = SweepRest(sweepTodo, ep, resp)
    /\ regLast' = [kind |-> "cleanup", ep |-> ep, sid |-> sessions[ep], ans |-> resp]
    /\ UNCHANGED <<authInst, nextSid, regPhase, regPrev, sweepAll>>
    /\ UNCHANGED notReg

\* cleanup_sessions returns cleanup_results and run() prints the summary
SweepDone ==
    /\ regPhase = "sweep"
    /\ sweepTodo = {}
    /\ regPhase' = "stopped"
    /\ UNCHANGED <<sessions, authInst, fsInst, dsInst, nextSid, regLast, regPrev,
                   sweepVars>>
    /\ UNCHANGED notReg

NextReg ==
    \/ \E resp \in LoginResponses : AutoLogin(resp)
    \/ StartServing
    \/ \E ep \in Endpoints, resp \in LoginResponses : Login(ep, resp)
    \/ \E ep \in Endpoints, resp \in LogoutResponses : Logout(ep, resp)
    \/ \E ep \in Endpoints : FileStationCall(ep)
    \/ \E ep \in Endpoints : DownloadStationCall(ep)
    \/ Shutdown
    \/ \E ep \in Endpoints, resp \in LogoutResponses : SweepStep(ep, resp)
    \/ SweepDone

SpecReg == Init /\ [][NextReg]_vars

(***************************************************************************)
(* iSCSI: the LUN and target operations, one request each.                 *)
(***************************************************************************)
LunStates == { "absent", "unmapped", "mapped" }

LunResponses == { "ok", "backend_error", "transport_error" }

InitLun ==
    /\ FsIdle /\ PathIdle /\ RegIdle /\ LunIdle /\ DsIdle /\ LoopIdle /\ EnvIdle /\ CallIdle /\ OpIdle
    /\ lunState \in [Luns -> LunStates]

\* uuid=f'"{uuid}"'
Quoted(uuid) == <<"\"", uuid, "\"">>

\* one _make_request of the iSCSI module
LunRequest(api, method, use_post, uuid) ==
    [api |-> api, method |-> method, post |-> use_post, uuid |-> uuid]

\* the operation `op` on `uuid` issued `reqs` and the backend answered `resp`
LunDone(op, uuid, reqs, resp) ==
    /\ lunOp' = op /\ lunArg' = uuid
    /\ lunWasMapped' = (uuid \in Luns /\ lunState[uuid] = "mapped")
    /\ lunReqs' = reqs
    /\ lunOutcome' = IF resp = "ok" THEN "ok" ELSE RequestError(resp)

ListLuns(resp) ==
    /\ LunDone("list_luns", "none",
               << LunRequest("SYNO.Core.ISCSI.LUN", "list", FALSE, <<>>) >>, resp)
    /\ UNCHANGED lunState
    /\ UNCHANGED notLun

GetLun(uuid, resp) ==
    /\ resp = "ok" => lunState[uuid] # "absent"
    /\ LunDone("get_lun", uuid,
               << LunRequest("SYNO.Core.ISCSI.LUN", "get", FALSE, Quoted(uuid)) >>, resp)
    /\ UNCHANGED lunState
    /\ UNCHANGED notLun

\* delete_lun: one POST of method delete; on success the backend has removed the LUN
DeleteLun(uuid, resp) ==
    /\ resp = "ok" => lunState[uuid] # "absent"
    /\ LunDone("delete_lun", uuid,
               << LunRequest("SYNO.Core.ISCSI.LUN", "delete", TRUE, Quoted(uuid)) >>, resp)
    /\ lunState' = IF resp = "ok" THEN [lunState EXCEPT ![uuid] = "absent"] ELSE lunState
    /\ UNCHANGED notLun

ListTargets(resp) ==
    /\ LunDone("list_targets", "none",
               << LunRequest("SYNO.Core.ISCSI.Target", "list", FALSE, <<>>) >>, resp)
    /\ UNCHANGED lunState
    /\ UNCHANGED notLun

\* unmap_lun: one POST of method unmap_target; on success the LUN is unmapped
UnmapLun(uuid, resp) ==
    /\ resp = "ok" => lunState[uuid] = "mapped"
    /\ LunDone("unmap_lun", uuid,
               << LunRequest("SYNO.Core.ISCSI.LUN", "unmap_target", TRUE, Quoted(uuid)) >>,
               resp)
    /\ lunState' = IF resp = "ok" THEN [lunState EXCEPT ![uuid] = "unmapped"] ELSE lunState
    /\ UNCHANGED notLun

NextLun ==
    \/ \E resp \in LunResponses : ListLuns(resp)
    \/ \E uuid \in Luns, resp \in LunResponses : GetLun(uuid, resp)
    \/ \E uuid \in Luns, resp \in LunResponses : DeleteLun(uuid, resp)
    \/ \E resp \in LunResponses : ListTargets(resp)
    \/ \E uuid \in Luns, resp \in LunResponses : UnmapLun(uuid, resp)

SpecLun == InitLun /\ [][NextLun]_vars

(***************************************************************************)
(* Download Station: create_task and the default destination.              *)
(***************************************************************************)
\* get_common_destinations(): the preferred destination, then the fixed list
CommonDestinationsMusicFirst(preferred) ==
    << preferred, "music", "video", "software", "documents", "photos", "backup" >>

\* get_common_destinations
CommonDestinations(preferred) ==
    << preferred, "video", "music", "software", "documents", "photos", "backup" >>

\* the shared folders the model's NAS may have; the other common destinations are
\* probed and never found
AllFolders == { "downloads", "custom", "video", "music", "backup" }

\* destination arguments of create_task; "" stands for no destination given
CreateArgs == { "", "custom", "video" }

\* arguments of set_default_destination
DefaultArgs == { "downloads", "custom", "video" }

\* a getinfo probe either is answered by the backend or fails (an exception, or
\* an envelope without success)
ProbeAnswers == { "answer", "fail" }

\* what a task create call answers: success, a backend error code, a transport failure
CreateResponses ==
    { "ok", "102", "103", "104", "105", "106", "107", "120", "403", "transport_error" }

RequestRaisesAlways(resp) == TRUE

\* whether _make_request raises for the answer instead of returning its data
RequestRaises(resp) == resp # "ok"

\* what the backend reports for the probe of dest: dir, missing, failed
ProbeReport(dest, ans) ==
    IF ans = "fail" THEN "failed"
    ELSE IF dest \in dsExists THEN "dir" ELSE "missing"

ExistsUnlessKnownMissing(report) == report # "missing"

\* _check_destination_exists: True only for an answered probe that shows a directory
CheckDestinationExists(report) == report = "dir"

AppendAlways(suggestions, dest, found) == Append(suggestions, dest)

\* the suggestion loop's body: append the common destination when its probe is true
AddSuggestion(suggestions, dest, found) ==
    IF found THEN Append(suggestions, dest) ELSE suggestions

InitDs ==
    /\ FsIdle /\ PathIdle /\ RegIdle /\ LunRest /\ LoopIdle /\ EnvIdle /\ CallIdle /\ OpIdle
    /\ DsBetween /\ dsPreferred = "downloads"
    /\ dsExists \in SUBSET AllFolders

DsCallCreateTask(destination) ==
    /\ dsPc = "idle"
    /\ dsOp' = "create_task" /\ dsArg' = destination /\ dsDest' = destination
    /\ IF destination = ""
       THEN dsPc' = "default" /\ dsIdx' = 1
       ELSE dsPc' = "validate" /\ dsIdx' = 0
    /\ UNCHANGED <<dsExists, dsPreferred, dsSuggest, dsProbeSaw, dsV2Err, dsOutcome,
                   nDsProbe, dsCreates>>
    /\ UNCHANGED <<dsProbeFailed, dsLists>>
    /\ UNCHANGED dsDefaultSaw
    /\ UNCHANGED notDs

\* get_default_destination: one probe of the preferred destination (position 1) or
\* of the next common destination; the first one found is used, the preferred one
\* when none is found
DsDefaultProbe(ans) ==
    /\ dsPc = "default"
    /\ nDsProbe' = nDsProbe + 1
    /\ LET list == CommonDestinations(dsPreferred)
           dest == list[dsIdx]
       IN IF CheckDestinationExists(ProbeReport(dest, ans))
          THEN dsDest' = dest /\ dsPc' = "validate" /\ dsIdx' = 0
          ELSE IF dsIdx = Len(list)
          THEN dsDest' = dsPreferred /\ dsPc' = "validate" /\ dsIdx' = 0
          ELSE dsDest' = dsDest /\ dsPc' = "default" /\ dsIdx' = dsIdx + 1
    /\ UNCHANGED <<dsExists, dsPreferred, dsOp, dsArg, dsSuggest, dsProbeSaw, dsV2Err,
                   dsOutcome, dsCreates>>
    /\ UNCHANGED <<dsProbeFailed, dsLists>>
    /\ dsDefaultSaw' = Append(dsDefaultSaw,
                              ProbeReport(CommonDestinations(dsPreferred)[dsIdx], ans))
    /\ UNCHANGED notDs

\* the probe of the destination in use, before any create call
DsValidate(ans) ==
    /\ dsPc = "validate"
    /\ nDsProbe' = nDsProbe + 1
    /\ dsProbeSaw' = ProbeReport(dsDest, ans)
    /\ IF CheckDestinationExists(dsProbeSaw')
       THEN dsPc' = "create2" /\ dsIdx' = 0
       ELSE dsPc' = "suggest" /\ dsIdx' = 1
    /\ UNCHANGED <<dsExists, dsPreferred, dsOp, dsArg, dsDest, dsSuggest, dsV2Err,
                   dsOutcome, dsCreates>>
    /\ UNCHANGED <<dsProbeFailed, dsLists>>
    /\ dsDefaultSaw' = <<>>
    /\ UNCHANGED notDs

\* one pass of the suggestion loop; after the last one the error is raised
DsSuggestProbe(ans) ==
    /\ dsPc = "suggest"
    /\ nDsProbe' = nDsProbe + 1
    /\ LET list == CommonDestinations(dsPreferred)
           dest == list[dsIdx]
       IN /\ dsSuggest' = AddSuggestion(dsSuggest, dest,
                                        CheckDestinationExists(ProbeReport(dest, ans)))
          /\ IF dsIdx = Len(list)
             THEN dsPc' = "done" /\ dsOutcome' = "DestinationMissing" /\ dsIdx' = 0
             ELSE dsPc' = "suggest" /\ dsOutcome' = dsOutcome /\ dsIdx' = dsIdx + 1
    /\ UNCHANGED <<dsExists, dsPreferred, dsOp, dsArg, dsDest, dsProbeSaw, dsV2Err,
                   dsCreates>>
    /\ dsProbeFailed' = (dsProbeFailed \/ ans = "fail")
    /\ UNCHANGED dsLists
    /\ UNCHANGED dsDefaultSaw
    /\ UNCHANGED notDs

\* the create call at task_version "2"; any exception leads to the version 1 attempt
DsCreateV2(resp) ==
    /\ dsPc = "create2"
    /\ dsCreates' = Append(dsCreates, 2)
    /\ IF ~RequestRaises(resp)
       THEN dsPc' = "done" /\ dsOutcome' = "ok" /\ dsV2Err' = dsV2Err
       ELSE dsPc' = "create1" /\ dsOutcome' = dsOutcome /\ dsV2Err' = resp
    /\ UNCHANGED <<dsExists, dsPreferred, dsOp, dsArg, dsDest, dsIdx, dsSuggest,
                   dsProbeSaw, nDsProbe>>
    /\ UNCHANGED <<dsProbeFailed, dsLists>>
    /\ UNCHANGED dsDefaultSaw
    /\ UNCHANGED notDs

\* the create call at version "1"; when it fails too, the version 2 error is raised
DsCreateV1(resp) ==
    /\ dsPc = "create1"
    /\ dsCreates' = Append(dsCreates, 1)
    /\ dsPc' = "done"
    /\ dsOutcome' = IF resp = "ok" THEN "ok" ELSE "TaskCreationFailed"
    /\ UNCHANGED <<dsExists, dsPreferred, dsOp, dsArg, dsDest, dsIdx, dsSuggest,
                   dsProbeSaw, dsV2Err, nDsProbe>>
    /\ UNCHANGED <<dsProbeFailed, dsLists>>
    /\ UNCHANGED dsDefaultSaw
    /\ UNCHANGED notDs

\* set_default_destination: one probe; the preference changes when it is true
SetDefaultDestination(destination, ans) ==
    /\ dsPc = "idle"
    /\ dsPreferred' = IF CheckDestinationExists(ProbeReport(destination, ans))
                      THEN destination ELSE dsPreferred
    /\ UNCHANGED <<dsExists, dsOp, dsPc, dsArg, dsDest, dsIdx, dsSuggest, dsProbeSaw,
                   dsV2Err, dsOutcome, nDsProbe, dsCreates>>
    /\ UNCHANGED <<dsProbeFailed, dsLists>>
    /\ UNCHANGED dsDefaultSaw
    /\ UNCHANGED notDs

\* the operation has returned to its handler
DsReturn ==
    /\ dsPc = "done"
    /\ dsOp' = "none" /\ dsPc' = "idle" /\ dsArg' = "" /\ dsDest' = "" /\ dsIdx' = 0
    /\ dsSuggest' = <<>> /\ dsProbeSaw' = "none" /\ dsV2Err' = "none"
    /\ dsOutcome' = "none" /\ nDsProbe' = 0 /\ dsCreates' = <<>>
    /\ dsProbeFailed' = FALSE /\ dsLists' = <<>>
    /\ UNCHANGED <<dsExists, dsPreferred>>
    /\ dsDefaultSaw' = <<>>
    /\ UNCHANGED notDs

(***************************************************************************)
(* Download Station: list_tasks and its fallback to API version 1.  An     *)
(* error text is the sequence of its words.                                *)
(***************************************************************************)
\* what a list call answers: success, a backend error code, a timeout, a
\* connection reset by the peer (errno 104)
ListResponses ==
    { "ok", "102", "103", "104", "105", "106", "107", "transport_error", "conn_reset" }

\* _get_error_message for the codes above
GetErrorMessage(code) ==
    CASE code = "102" -> << "The", "requested", "API", "does", "not", "exist" >>
      [] code = "103" -> << "The", "requested", "method", "does", "not", "exist" >>
      [] code = "104" -> << "The", "requested", "version", "does", "not", "support",
                            "the", "functionality" >>
      [] code = "105" -> << "The", "logged", "in", "session", "does", "not", "have",
                            "permission" >>
      [] code = "106" -> << "Session", "timeout" >>
      [] code = "107" -> << "Session", "interrupted", "by", "duplicate", "login" >>
      [] OTHER -> << "Unknown", "error:", code >>

\* str(e) of the exception _make_request raises for a failed call
ErrorText(resp) ==
    CASE resp = "transport_error" ->
           << "Network", "error:", "Read", "timed", "out" >>
      [] resp = "conn_reset" ->
           << "Network", "error:", "Connection", "aborted", "ConnectionResetError",
              "104", "Connection", "reset", "by", "peer" >>
      [] OTHER ->
           << "Download", "Station", "API", "error", resp, ":" >> \o GetErrorMessage(resp)

\* needle in text
Contains(text, needle) ==
    \E i \in 1 .. Len(text) - Len(needle) + 1 :
        SubSeq(text, i, i + Len(needle) - 1) = needle

ListFallsBackAlways(text) == TRUE

\* the test that decides whether list_tasks tries version 1
ListFallsBack(text) ==
    \/ Contains(text, << "doesn't", "exist" >>)
    \/ Contains(text, << "102" >>)
    \/ Contains(text, << "104" >>)

\* the kind of the exception a failed Download Station request raises
DsRequestError(resp) ==
    IF resp \in {"transport_error", "conn_reset"} THEN "NetworkError" ELSE "ApiError"

DsCallListTasks ==
    /\ dsPc = "idle"
    /\ dsOp' = "list_tasks" /\ dsPc' = "list2"
    /\ UNCHANGED <<dsExists, dsPreferred, dsArg, dsDest, dsIdx, dsSuggest, dsProbeSaw,
                   dsV2Err, dsOutcome, nDsProbe, dsCreates, dsProbeFailed, dsLists>>
    /\ UNCHANGED dsDefaultSaw
    /\ UNCHANGED notDs

\* the list call at task_version "2"
DsListV2(resp) ==
    /\ dsPc = "list2"
    /\ dsLists' = Append(dsLists, 2)
    /\ IF ~RequestRaises(resp)
       THEN dsPc' = "done" /\ dsOutcome' = "tasks_v2" /\ dsV2Err' = dsV2Err
       ELSE /\ dsV2Err' = resp
            /\ IF ListFallsBack(ErrorText(resp))
               THEN dsPc' = "list1" /\ dsOutcome' = dsOutcome
               ELSE dsPc' = "done" /\ dsOutcome' = DsRequestError(resp)
    /\ UNCHANGED <<dsExists, dsPreferred, dsOp, dsArg, dsDest, dsIdx, dsSuggest,
                   dsProbeSaw, nDsProbe, dsCreates, dsProbeFailed>>
    /\ UNCHANGED dsDefaultSaw
    /\ UNCHANGED notDs

\* the list call at version "1"; when it fails too, an empty task list is returned
DsListV1(resp) ==
    /\ dsPc = "list1"
    /\ dsLists' = Append(dsLists, 1)
    /\ dsPc' = "done"
    /\ dsOutcome' = IF resp = "ok" THEN "tasks_v1" ELSE "tasks_empty"
    /\ UNCHANGED <<dsExists, dsPreferred, dsOp, dsArg, dsDest, dsIdx, dsSuggest,
                   dsProbeSaw, dsV2Err, nDsProbe, dsCreates, dsProbeFailed>>
    /\ UNCHANGED dsDefaultSaw
    /\ UNCHANGED notDs

NextDs ==
    \/ DsCallListTasks
    \/ \E resp \in ListResponses : DsListV2(resp)
    \/ \E resp \in ListResponses : DsListV1(resp)
    \/ \E destination \in CreateArgs : DsCallCreateTask(destination)
    \/ \E ans \in ProbeAnswers : DsDefaultProbe(ans)
    \/ \E ans \in ProbeAnswers : DsValidate(ans)
    \/ \E ans \in ProbeAnswers : DsSuggestProbe(ans)
    \/ \E resp \in CreateResponses : DsCreateV2(resp)
    \/ \E resp \in CreateResponses : DsCreateV1(resp)
    \/ \E destination \in DefaultArgs, ans \in ProbeAnswers :
          SetDefaultDestination(destination, ans)
    \/ DsReturn

SpecDs == InitDs /\ [][NextDs]_vars

(***************************************************************************)
(* Tool calls on the event loop.  The shell may have several calls in      *)
(* flight; the server's event loop runs one handler at a time and can turn *)
(* to another one only where the running handler awaits.                   *)
(***************************************************************************)
ToolKinds == { "login", "status", "search", "delete" }

\* what a poll call of a handler's task loop answers
LoopPollAnswers == { "notfinished", "finished", "transport_error" }

SuspendsAtSleep(pc) == pc = "sleep"

\* whether a handler at position pc leaves the event loop to other tool calls:
\* the handlers and the module methods they call contain no await, and the wait
\* between two polls is time.sleep
Suspends(pc) == FALSE

\* the tool call t may take its next step
MayStep(t) == loopOwner = t \/ (loopOwner = 0 /\ Suspends(tkPc[t]))

\* who holds the event loop once a handler has moved to position pc
OwnerAt(t, pc) == IF pc = "idle" \/ Suspends(pc) THEN 0 ELSE t

\* a request of the tool call t goes out with the session_id of its instance
SendsStale(t) == tkTok[t] # sessions[tkEp[t]]

\* the server after run() has started serving without an auto-login
InitLoop ==
    /\ FsIdle /\ PathIdle /\ LunRest /\ DsIdle /\ LoopIdle /\ EnvIdle /\ CallIdle /\ OpIdle
    /\ sessions = [e \in Endpoints |-> 0]
    /\ authInst = {}
    /\ fsInst = [e \in Endpoints |-> 0]
    /\ dsInst = [e \in Endpoints |-> 0]
    /\ nextSid = 1
    /\ regLast = NoEvent
    /\ regPhase = "serving"
    /\ regPrev = [e \in Endpoints |-> NoPrev]
    /\ sweepTodo = {} /\ sweepAll = {} /\ sweepTried = {} /\ sweepResults = <<>>

\* the handler of t moves to position pc, holding an instance with session_id
\* tok after polls poll calls; its return clears the call
TaskGoes(t, pc, tok, polls) ==
    /\ tkPc' = [tkPc EXCEPT ![t] = pc]
    /\ loopOwner' = OwnerAt(t, pc)
    /\ IF pc = "idle"
       THEN /\ tkKind' = [tkKind EXCEPT ![t] = "none"]
            /\ tkEp' = [tkEp EXCEPT ![t] = "none"]
            /\ tkTok' = [tkTok EXCEPT ![t] = 0]
            /\ tkPolls' = [tkPolls EXCEPT ![t] = 0]
       ELSE /\ tkTok' = [tkTok EXCEPT ![t] = tok]
            /\ tkPolls' = [tkPolls EXCEPT ![t] = polls]
            /\ UNCHANGED <<tkKind, tkEp>>

\* the shell sends a tool call
Dispatch(t, kind, ep) ==
    /\ tkPc[t] = "idle"
    /\ tkPc' = [tkPc EXCEPT ![t] = "ready"]
    /\ tkKind' = [tkKind EXCEPT ![t] = kind]
    /\ tkEp' = [tkEp EXCEPT ![t] = ep]
    /\ UNCHANGED <<loopOwner, tkTok, tkPolls, loopStale>>
    /\ UNCHANGED regVars
    /\ UNCHANGED notLoop

\* the event loop, running no handler, starts handle_call_tool for the call
RunTask(t) ==
    /\ tkPc[t] = "ready"
    /\ loopOwner = 0
    /\ TaskGoes(t, CASE tkKind[t] = "login" -> "login"
                     [] tkKind[t] = "status" -> "status"
                     [] OTHER -> "get", 0, 0)
    /\ UNCHANGED loopStale
    /\ UNCHANGED regVars
    /\ UNCHANGED notLoop

\* _handle_login: auth.login, and on success the session stored and the cached
\* instances cleared
LoopLogin(t, resp) ==
    /\ tkPc[t] = "login"
    /\ MayStep(t)
    /\ authInst' = authInst \cup {tkEp[t]}
    /\ IF resp = "ok"
       THEN StoreSession(tkEp[t], "login_ok")
       ELSE /\ regLast' = [kind |-> "login_fail", ep |-> tkEp[t], sid |-> 0, ans |-> resp]
            /\ UNCHANGED <<sessions, fsInst, dsInst, nextSid, regPrev>>
    /\ TaskGoes(t, "idle", 0, 0)
    /\ UNCHANGED loopStale
    /\ UNCHANGED <<regPhase, sweepVars>>
    /\ UNCHANGED notLoop

\* _handle_status: reads the registries, calls no capability module
LoopStatus(t) ==
    /\ tkPc[t] = "status"
    /\ MayStep(t)
    /\ TaskGoes(t, "idle", 0, 0)
    /\ UNCHANGED loopStale
    /\ UNCHANGED regVars
    /\ UNCHANGED notLoop

\* _handle_search_files, _handle_delete: _get_filestation
LoopGet(t) ==
    /\ tkPc[t] = "get"
    /\ MayStep(t)
    /\ IF ~HasSession(tkEp[t])
       THEN TaskGoes(t, "idle", 0, 0) /\ UNCHANGED fsInst
       ELSE /\ fsInst' = GetInstance(fsInst, tkEp[t])
            /\ TaskGoes(t, "start", fsInst'[tkEp[t]], 0)
    /\ UNCHANGED loopStale
    /\ UNCHANGED <<sessions, authInst, dsInst, nextSid, regLast, regPhase, regPrev,
                   sweepVars>>
    /\ UNCHANGED notLoop

\* the start request of search_files or delete; without a task id the method raises
LoopStart(t, started) ==
    /\ tkPc[t] = "start"
    /\ MayStep(t)
    /\ loopStale' = (loopStale \/ SendsStale(t))
    /\ TaskGoes(t, IF started THEN "poll" ELSE "idle", tkTok[t], 0)
    /\ UNCHANGED regVars
    /\ UNCHANGED notLoop

\* one poll request of the task loop
LoopPoll(t, resp) ==
    /\ tkPc[t] = "poll"
    /\ MayStep(t)
    /\ resp = "notfinished" => tkPolls[t] < MaxLoopPolls
    /\ loopStale' = (loopStale \/ SendsStale(t))
    /\ LET verdict == PollVerdict(tkKind[t], resp)
       IN TaskGoes(t, CASE verdict = "continue" -> "sleep"
                        [] verdict = "ok" ->
                             IF StopsOnReturn(tkKind[t]) THEN "stop" ELSE "idle"
                        [] OTHER ->
                             IF StopsOnRaise(tkKind[t], verdict) THEN "stop" ELSE "idle",
                   tkTok[t], tkPolls[t] + 1)
    /\ UNCHANGED regVars
    /\ UNCHANGED notLoop

\* time.sleep(0.5) returns
LoopSleep(t) ==
    /\ tkPc[t] = "sleep"
    /\ MayStep(t)
    /\ TaskGoes(t, "poll", tkTok[t], tkPolls[t])
    /\ UNCHANGED loopStale
    /\ UNCHANGED regVars
    /\ UNCHANGED notLoop

\* the stop request, after which the method returns or re-raises
LoopStop(t) ==
    /\ tkPc[t] = "stop"
    /\ MayStep(t)
    /\ loopStale' = (loopStale \/ SendsStale(t))
    /\ TaskGoes(t, "idle", 0, 0)
    /\ UNCHANGED regVars
    /\ UNCHANGED notLoop

NextLoop ==
    \/ \E t \in Tasks, kind \in ToolKinds, ep \in Endpoints : Dispatch(t, kind, ep)
    \/ \E t \in Tasks : RunTask(t)
    \/ \E t \in Tasks, resp \in LoginResponses : LoopLogin(t, resp)
    \/ \E t \in Tasks : LoopStatus(t)
    \/ \E t \in Tasks : LoopGet(t)
    \/ \E t \in Tasks, started \in BOOLEAN : LoopStart(t, started)
    \/ \E t \in Tasks, resp \in LoopPollAnswers : LoopPoll(t, resp)
    \/ \E t \in Tasks : LoopSleep(t)
    \/ \E t \in Tasks : LoopStop(t)

SpecLoop == InitLoop /\ [][NextLoop]_vars

(***************************************************************************)
(* The request helpers of the modules: what they make of a JSON envelope.  *)
(* An absent key is "none"; a message is the record of its parts.          *)
(***************************************************************************)
EnvHelpers == { "filestation", "upload", "iscsi", "downloadstation" }

\* error.code of the envelope, when present
EnvCodes == { "none", "400", "105" }

\* the entries of error.errors: a code and a path, either of which may be absent
EnvItems == [code : {"none", "408"}, path : {"none", "/a", "/b"}]

EnvErrorLists == UNION { [1 .. n -> EnvItems] : n \in 0 .. MaxErrors }

Envelopes == [success : BOOLEAN, code : EnvCodes, errors : EnvErrorLists]

\* dict.get('code', 'unknown')
CodeOrUnknown(code) == IF code = "none" THEN "unknown" ELSE code

\* the loop over error_info['errors']: "Code c" and, with a path, " for path: p"
DetailedErrors(errors) ==
    [i \in 1 .. Len(errors) |->
        [code |-> CodeOrUnknown(errors[i].code), path |-> errors[i].path]]

\* _get_error_message(error_code) of the Download Station helper
DsErrorText(code) ==
    IF code \in {"102", "103", "104", "105", "106", "107"}
    THEN GetErrorMessage(code)
    ELSE IF code = "400" THEN << "File", "upload", "failed" >>
    ELSE << "Unknown", "error:", CodeOrUnknown(code) >>

\* the message of the exception each helper raises for an envelope without success
HelperMessage(helper, resp) ==
    CASE helper = "filestation" ->
           [prefix |-> "Synology API error:", code |-> CodeOrUnknown(resp.code),
            text |-> "none", details |-> DetailedErrors(resp.errors)]
      [] helper = "iscsi" ->
           [prefix |-> "Synology iSCSI API error:", code |-> CodeOrUnknown(resp.code),
            text |-> "none", details |-> DetailedErrors(resp.errors)]
      [] helper = "upload" ->
           [prefix |-> "Synology API error:", code |-> CodeOrUnknown(resp.code),
            text |-> "none", details |-> <<>>]
      [] OTHER ->
           [prefix |-> "Download Station API error", code |-> CodeOrUnknown(resp.code),
            text |-> DsErrorText(resp.code), details |-> <<>>]

InitEnv ==
    /\ FsIdle /\ PathIdle /\ RegIdle /\ LunRest /\ DsIdle /\ LoopIdle /\ CallIdle /\ OpIdle
    /\ envHelper \in EnvHelpers /\ envResp \in Envelopes /\ envPc = "in"
    /\ envRaised = FALSE /\ envMsg = NoMessage

\* the helper reads the envelope: data.get('success') decides
EnvRespond ==
    /\ envPc = "in"
    /\ envPc' = "done"
    /\ envRaised' = ~envResp.success
    /\ envMsg' = IF envResp.success THEN NoMessage ELSE HelperMessage(envHelper, envResp)
    /\ UNCHANGED <<envHelper, envResp>>
    /\ UNCHANGED notEnv

NextEnv == EnvRespond

SpecEnv == InitEnv /\ [][NextEnv]_vars

(***************************************************************************)
(* The dispatch of one tool call: handle_call_tool and call_tool_direct.   *)
(* A text is the sequence of its parts.                                    *)
(***************************************************************************)
KnownTools ==
    { "synology_login", "synology_logout", "synology_status", "list_shares",
      "list_directory", "get_file_info", "search_files", "get_file_content",
      "rename_file", "move_file", "create_file", "create_directory", "delete",
      "ds_get_info", "ds_list_tasks", "ds_create_task", "ds_pause_tasks",
      "ds_resume_tasks", "ds_delete_tasks", "ds_get_statistics",
      "ds_list_downloaded_files" }

ToolNames == KnownTools \cup { "no_such_tool" }

CallEntries == { "handle_call_tool", "call_tool_direct" }

\* what a handler does: it returns its content, or it raises: an Exception of a
\* module, a KeyError for a missing argument, an HTTPError of requests, or a
\* KeyboardInterrupt delivered while it runs
HandlerDoes == { "returns", "Exception", "KeyError", "HTTPError", "KeyboardInterrupt" }

\* str(e) of what the handler raised
ExcText(exc) ==
    CASE exc = "Exception" -> << "Synology API error: 400" >>
      [] exc = "KeyError" -> << "'path'" >>
      [] exc = "HTTPError" -> << "502 Server Error: Bad Gateway" >>
      [] OTHER -> <<>>

CaughtValueErrorOnly(exc) == exc = "ValueError"

\* except Exception: the classes it catches
Caught(exc) == exc \in { "Exception", "ValueError", "KeyError", "HTTPError" }

\* f"Error executing {name}: {str(e)}"
ErrorOutput(name, text) ==
    [kind |-> "text", text |-> << "Error executing", name, ":" >> \o text]

\* the exception exc with str(e) = text leaves the try block
AfterRaise(name, exc, text) ==
    IF Caught(exc) THEN ErrorOutput(name, text)
    ELSE [kind |-> "raised", text |-> <<exc>>]

InitCall ==
    /\ FsIdle /\ PathIdle /\ RegIdle /\ LunRest /\ DsIdle /\ LoopIdle /\ EnvIdle /\ OpIdle
    /\ callName \in ToolNames /\ callEntry \in CallEntries /\ callDoes \in HandlerDoes
    /\ callPc = "in" /\ callOut = NoOutput

\* the chain of name comparisons: a known name goes to its handler, any other
\* name raises ValueError inside the try block
CallDispatch ==
    /\ callPc = "in"
    /\ IF callName \in KnownTools
       THEN callPc' = "handler" /\ callOut' = callOut
       ELSE /\ callPc' = "done"
            /\ callOut' = AfterRaise(callName, "ValueError", << "Unknown tool:", callName >>)
    /\ UNCHANGED <<callName, callEntry, callDoes>>
    /\ UNCHANGED notCall

\* the handler returns or raises
CallHandler ==
    /\ callPc = "handler"
    /\ callPc' = "done"
    /\ callOut' = IF callDoes = "returns"
                  THEN [kind |-> "text", text |-> << "result of", callName >>]
                  ELSE AfterRaise(callName, callDoes, ExcText(callDoes))
    /\ UNCHANGED <<callName, callEntry, callDoes>>
    /\ UNCHANGED notCall

NextCall == CallDispatch \/ CallHandler

SpecCall == InitCall /\ [][NextCall]_vars

(***************************************************************************)
(* The backend operations call by call: the checks an operation makes on   *)
(* its arguments before its first request, and how each request is sent.   *)
(***************************************************************************)
Backslash == "\\"

NameChars == { " ", Slash, Backslash, "a" }

\* the new_name and name arguments
NameInputs == UNION { [1 .. n -> NameChars] : n \in 0 .. MaxNameLen }

\* the path arguments
OpPaths == { <<>>, Root, <<Slash, Slash>>, <<Slash, "d">>, <<"d">>, <<Slash, "d", Slash>>,
             <<Slash, "d", Slash, "e">> }

RECURSIVE LStrip(_)
LStrip(s) == IF s # <<>> /\ s[1] = " " THEN LStrip(Tail(s)) ELSE s

RECURSIVE RStrip(_)
RStrip(s) ==
    IF s # <<>> /\ s[Len(s)] = " " THEN RStrip(SubSeq(s, 1, Len(s) - 1)) ELSE s

StripNothing(s) == s

\* str.strip()
Strip(s) == RStrip(LStrip(s))

IsSeparator(c) == c \in { Slash, Backslash }

\* .replace('/', '').replace('\\', '')
RemoveSeparators(s) == SelectSeq(s, LAMBDA c : ~IsSeparator(c))

RECURSIVE Basename(_)
\* os.path.basename: what follows the last slash
Basename(p) ==
    IF p = <<>> \/ p[Len(p)] = Slash THEN <<>>
    ELSE Basename(SubSeq(p, 1, Len(p) - 1)) \o <<p[Len(p)]>>

\* the two checks rename_file and create_directory make on the name
NameCheck(name) ==
    IF name = <<>> \/ Strip(name) = <<>> THEN "NameEmpty"
    ELSE IF RemoveSeparators(Strip(name)) = <<>> THEN "NameInvalid"
    ELSE "ok"

\* the checks of an operation before its first request: ok, or the error raised
Validate(op, a, b) ==
    CASE op = "rename_file" -> NameCheck(b)
      [] op = "create_directory" ->
           IF FormatPath(a) = <<>> THEN "PathInvalid" ELSE NameCheck(b)
      [] op = "create_file" ->
           IF FormatPath(a) = <<>> \/ FormatPath(a) = Root THEN "PathInvalid"
           ELSE IF Basename(FormatPath(a)) = <<>> THEN "FilenameInvalid"
           ELSE "ok"
      [] op = "move_file" ->
           IF MoveRefused(FormatPath(a), FormatPath(b)) THEN "PathInvalid" ELSE "ok"
      [] OTHER -> "ok"

\* one call site: the API and method, the code that sends it (via), the use_post
\* argument it passes, and where the operation goes after an answer (ok) or an
\* exception (fail): to its next call site, to its return, or to a raise
Site(api, method, via, post, ok, fail) ==
    [api |-> api, method |-> method, via |-> via, post |-> post, ok |-> ok, fail |-> fail]

FsSite(api, method) == Site(api, method, "fs", FALSE, "next", "raise")

DsSite(api, method) == Site(api, method, "ds", FALSE, "next", "raise")

\* the call sites of each operation in program order
OpSites(op) ==
    CASE op = "list_shares" -> << FsSite("SYNO.FileStation.List", "list_share") >>
      [] op = "list_directory" -> << FsSite("SYNO.FileStation.List", "list") >>
      [] op = "get_file_info" -> << FsSite("SYNO.FileStation.List", "getinfo") >>
      [] op = "search_files" ->
           << FsSite("SYNO.FileStation.Search", "start"),
              Site("SYNO.FileStation.Search", "list", "fs", FALSE, "next", "next"),
              Site("SYNO.FileStation.Search", "stop", "fs", FALSE, "return", "return") >>
      [] op = "rename_file" -> << FsSite("SYNO.FileStation.Rename", "rename") >>
      [] op = "create_file" ->
           << Site("SYNO.FileStation.Upload", "upload", "session_post", FALSE,
                   "next", "raise") >>
      [] op = "create_directory" -> << FsSite("SYNO.FileStation.CreateFolder", "create") >>
      [] op = "delete" ->
           << Site("SYNO.FileStation.List", "getinfo", "fs", FALSE, "next", "next"),
              FsSite("SYNO.FileStation.Delete", "start"),
              Site("SYNO.FileStation.Delete", "status", "fs", FALSE, "return", "next"),
              Site("SYNO.FileStation.Delete", "stop", "fs", FALSE, "raise", "raise") >>
      [] op = "get_file_content" ->
           << Site("SYNO.FileStation.Download", "download", "requests_get", FALSE,
                   "next", "raise") >>
      [] op = "move_file" ->
           << FsSite("SYNO.FileStation.CopyMove", "start"),
              Site("SYNO.FileStation.CopyMove", "status", "fs", FALSE, "return", "next"),
              Site("SYNO.FileStation.CopyMove", "stop", "fs", FALSE, "raise", "raise") >>
      [] op = "get_info" -> << DsSite("SYNO.DownloadStation.Info", "getinfo") >>
      [] op = "get_config" -> << DsSite("SYNO.DownloadStation.Info", "getconfig") >>
      [] op = "get_statistics" -> << DsSite("SYNO.DownloadStation.Statistic", "getinfo") >>
      [] op = "list_tasks" ->
           << Site("SYNO.DownloadStation2.Task", "list", "ds", FALSE, "return", "next"),
              Site("SYNO.DownloadStation2.Task", "list", "ds", FALSE, "return", "return") >>
      [] op = "create_task" ->
           << Site("SYNO.FileStation.List", "getinfo", "requests_get", FALSE,
                   "next", "raise"),
              Site("SYNO.DownloadStation2.Task", "create", "ds", FALSE, "return", "next"),
              Site("SYNO.DownloadStation2.Task", "create", "ds", FALSE, "return", "raise") >>
      [] op = "delete_tasks" -> << DsSite("SYNO.DownloadStation2.Task", "delete") >>
      [] op = "pause_tasks" -> << DsSite("SYNO.DownloadStation2.Task", "pause") >>
      [] op = "resume_tasks" -> << DsSite("SYNO.DownloadStation2.Task", "resume") >>
      [] op = "list_downloaded_files" ->
           << Site("SYNO.FileStation.List", "getinfo", "requests_get", FALSE,
                   "next", "next"),
              Site("SYNO.FileStation.List", "list", "requests_get", FALSE,
                   "next", "raise") >>
      [] op = "list_luns" -> << Site("SYNO.Core.ISCSI.LUN", "list", "iscsi", FALSE,
                                     "next", "raise") >>
      [] op = "get_lun" -> << Site("SYNO.Core.ISCSI.LUN", "get", "iscsi", FALSE,
                                   "next", "raise") >>
      [] op = "delete_lun" -> << Site("SYNO.Core.ISCSI.LUN", "delete", "iscsi", TRUE,
                                      "next", "raise") >>
      [] op = "list_targets" -> << Site("SYNO.Core.ISCSI.Target", "list", "iscsi", FALSE,
                                        "next", "raise") >>
      [] op = "unmap_lun" -> << Site("SYNO.Core.ISCSI.LUN", "unmap_target", "iscsi", TRUE,
                                     "next", "raise") >>

Operations ==
    { "list_shares", "list_directory", "get_file_info", "search_files", "rename_file",
      "create_file", "create_directory", "delete", "get_file_content", "move_file",
      "get_info", "get_config", "get_statistics", "list_tasks", "create_task",
      "delete_tasks", "pause_tasks", "resume_tasks", "list_downloaded_files",
      "list_luns", "get_lun", "delete_lun", "list_targets", "unmap_lun" }

\* how the sending code submits the request
Verb(site) ==
    CASE site.via \in {"fs", "iscsi"} -> IF site.post THEN "POST" ELSE "GET"
      [] site.via = "ds" -> IF site.method = "create" THEN "POST" ELSE "GET"
      [] site.via = "session_post" -> "POST"
      [] site.via = "requests_get" -> "GET"

\* the arguments the model gives an operation
OpArgs(op) ==
    CASE op \in {"rename_file", "create_directory"} -> OpPaths \X NameInputs
      [] op = "create_file" -> OpPaths \X { <<>> }
      [] op = "move_file" -> OpPaths \X OpPaths
      [] OTHER -> { << <<Slash, "d">>, <<>> >> }

OpResponses == { "ok", "fail" }

InitOp ==
    /\ FsIdle /\ PathIdle /\ RegIdle /\ LunRest /\ DsIdle /\ LoopIdle /\ EnvIdle /\ CallIdle
    /\ OpIdle

OpCall(op, args) ==
    /\ opPc = "idle"
    /\ opName' = op /\ opArgA' = args[1] /\ opArgB' = args[2] /\ opPc' = "check"
    /\ UNCHANGED <<opIdx, opSent, opOutcome>>
    /\ UNCHANGED notOp

\* the checks on the arguments; a failed check raises before the first request
OpCheck ==
    /\ opPc = "check"
    /\ LET v == Validate(opName, opArgA, opArgB) IN
         IF v = "ok"
         THEN opPc' = "send" /\ opIdx' = 1 /\ opOutcome' = opOutcome
         ELSE opPc' = "done" /\ opIdx' = opIdx /\ opOutcome' = v
    /\ UNCHANGED <<opName, opArgA, opArgB, opSent>>
    /\ UNCHANGED notOp

\* one request of the operation and where its answer leads
OpSend(resp) ==
    /\ opPc = "send"
    /\ LET site == OpSites(opName)[opIdx]
           goes == IF resp = "ok" THEN site.ok ELSE site.fail
       IN /\ opSent' = Append(opSent, [api |-> site.api, method |-> site.method,
                                       verb |-> Verb(site)])
          /\ IF goes = "next" /\ opIdx < Len(OpSites(opName))
             THEN opPc' = "send" /\ opIdx' = opIdx + 1 /\ opOutcome' = opOutcome
             ELSE /\ opPc' = "done" /\ opIdx' = opIdx
                  /\ opOutcome' = IF goes = "raise" THEN "BackendError" ELSE "ok"
    /\ UNCHANGED <<opName, opArgA, opArgB>>
    /\ UNCHANGED notOp

OpReturn ==
    /\ opPc = "done"
    /\ opName' = "none" /\ opArgA' = <<>> /\ opArgB' = <<>> /\ opPc' = "idle"
    /\ opIdx' = 0 /\ opSent' = <<>> /\ opOutcome' = "none"
    /\ UNCHANGED notOp

NextOp ==
    \/ \E op \in Operations : \E args \in OpArgs(op) : OpCall(op, args)
    \/ OpCheck
    \/ \E resp \in OpResponses : OpSend(resp)
    \/ OpReturn

SpecOp == InitOp /\ [][NextOp]_vars

(***************************************************************************)
(* Properties.                                                             *)
(***************************************************************************)
\* the operation has returned or raised after a start call gave it a task id
Returned == fsPc = "done" /\ fsTaskId # 0

OneStopForTask == nStop = 1 /\ stopTask = fsTaskId

C2_TimeoutStopsOnce ==
    /\ fsOutcome = "TaskTimedOut" => OneStopForTask
    /\ fsOp \in {"delete", "move"} /\ fsWait = MaxWait(fsOp) =>
          /\ fsPc \in {"stop", "done"}
          /\ fsPending = "TaskTimedOut"
          /\ nPoll = MaxWait(fsOp)
          /\ fsPc = "done" => fsOutcome = "TaskTimedOut"

C2_Witness ==
    Returned /\ fsOp = "move" /\ fsOutcome = "TaskTimedOut" /\ nPoll = 120 /\ nStop = 1

\* the error a failing poll stands for
PollErrorKind(resp) ==
    IF resp = "finished_error" THEN "TaskFailed" ELSE RequestError(resp)

PollFailed == fsLastPoll \in {"backend_error", "transport_error", "finished_error"}

PrimaryResult ==
    CASE fsLastPoll \in {"backend_error", "transport_error"} -> RequestError(fsLastPoll)
      [] fsLastPoll = "finished" -> "ok"
      [] fsLastPoll = "finished_error" -> IF fsOp = "search" THEN "ok" ELSE "TaskFailed"
      [] OTHER -> "TaskTimedOut"

\* C4: the caller's outcome is decided by the polls alone; whether the stop call
\* succeeded or failed, the outcome is the primary result.
C4_StopErrorSwallowed ==
    fsPc = "done" /\ fsStopRes \in {"ok", "fail"} => fsOutcome = PrimaryResult

C4_Witness ==
    fsPc = "done" /\ fsOp = "search" /\ fsStopRes = "fail" /\ fsOutcome = "ok"

\* C7: delete of a path whose canonical form is the root (or empty) or one of the
\* critical paths ends with a validation error and no backend call was issued.
C7_CriticalDeleteRefused ==
    /\ fsOp = "delete"
    /\ FormatPath(fsPath) \in {Root, <<>>} \cup CriticalPaths
    => /\ fsPc = "done" /\ fsOutcome = "ValidationError"
       /\ nProbe = 0 /\ nStart = 0 /\ nPoll = 0 /\ nStop = 0

C7_Witness ==
    fsPc = "done" /\ fsOp = "delete" /\ fsPath = P_etc_trail
    /\ fsOutcome = "ValidationError"

\* C8: canonicalizing a canonical form gives it back.
C8_FormatIdempotent ==
    pathPc = "twice" => pathTwice = pathOnce
\* C5: a successful login stores the new session id and clears the endpoint's
\* cached FileStation and DownloadStation instances, and every capability call
\* sends the session id the registry holds for its endpoint, never a replaced one.
C5_LoginReplacesToken ==
    /\ regLast.kind \in {"login_ok", "autologin_ok"} =>
          /\ sessions[regLast.ep] = regLast.sid
          /\ fsInst[regLast.ep] = 0 /\ dsInst[regLast.ep] = 0
          /\ regLast.sid # regPrev[regLast.ep].tok
    /\ regLast.kind \in {"call_fs", "call_ds"} =>
          /\ regLast.sid = sessions[regLast.ep]
          /\ regLast.sid # regPrev[regLast.ep].tok

\* a FileStation call after a login that replaced a session and a cached instance
C5_Witness ==
    /\ regLast.kind = "call_fs"
    /\ regPrev[regLast.ep].tok # 0 /\ regPrev[regLast.ep].fs # 0
    /\ regLast.sid = sessions[regLast.ep]

\* C6: delete_lun of a LUN that is mapped ends with a validation error and issues
\* no delete request.
C6_MappedLunNotDeleted ==
    lunOp = "delete_lun" /\ lunWasMapped =>
        /\ lunOutcome = "ValidationError"
        /\ \A i \in 1 .. Len(lunReqs) : lunReqs[i].method # "delete"

\* C9: a create call is issued, at either version, only after the probe of the
\* destination in use reported an existing directory; when that probe reported
\* the folder missing or failed, create_task fails without any create call.
C9_CreateOnlyAfterProbe ==
    /\ dsCreates # <<>> => dsProbeSaw = "dir"
    /\ dsProbeSaw \in {"missing", "failed"} =>
          /\ dsCreates = <<>>
          /\ dsPc \in {"suggest", "done"}
          /\ dsPc = "done" => dsOutcome = "DestinationMissing"

\* the probe failed for a folder that exists, and no task was created
C9_Witness ==
    /\ dsPc = "done" /\ dsProbeSaw = "failed" /\ dsDest \in dsExists
    /\ dsOutcome = "DestinationMissing" /\ dsCreates = <<>>

\* the names get_common_destinations returns
CommonSet == { CommonDestinations(dsPreferred)[i] : i \in 1 .. 7 }

\* C10: create_task without a destination, when neither the preferred nor any
\* common destination exists, fails with the destination-missing error and an
\* empty suggestion list.
C10_NoSuggestionsWhenNoneExist ==
    /\ dsOp = "create_task" /\ dsArg = "" /\ dsPc = "done"
    /\ dsExists \cap CommonSet = {}
    => dsOutcome = "DestinationMissing" /\ dsSuggest = <<>> /\ dsCreates = <<>>

C10_Witness ==
    /\ dsOp = "create_task" /\ dsArg = "" /\ dsPc = "done"
    /\ dsExists \cap CommonSet = {}
    /\ dsOutcome = "DestinationMissing" /\ dsSuggest = <<>> /\ nDsProbe = 15

RECURSIVE ExistingOnce(_, _)
\* the entries of `list` that exist, in list order, each one at its first position
ExistingOnce(list, seen) ==
    IF list = <<>> THEN <<>>
    ELSE IF Head(list) \in dsExists /\ Head(list) \notin seen
         THEN <<Head(list)>> \o ExistingOnce(Tail(list), seen \cup {Head(list)})
         ELSE ExistingOnce(Tail(list), seen)

\* C11: when create_task fails because the destination is missing and every probe
\* of the suggestion loop was answered, the suggestion list holds each common
\* destination that exists exactly once, in list order, and nothing else,
\* whatever the preferred default destination is.
C11_SuggestionsExistingOnce ==
    dsPc = "done" /\ dsOutcome = "DestinationMissing" /\ ~dsProbeFailed =>
        dsSuggest = ExistingOnce(CommonDestinations(dsPreferred), {})

\* C12: a list_tasks call whose version 2 request was rejected with code 103
\* (method does not exist) goes on to a version 1 request, and when that one
\* succeeds list_tasks returns its result.
C12_MethodMissingFallsBack ==
    dsOp = "list_tasks" /\ dsV2Err = "103" =>
        \/ dsPc = "list1"
        \/ dsPc = "done" /\ dsLists = <<2, 1>> /\ dsOutcome \in {"tasks_v1", "tasks_empty"}

\* C13: a list_tasks call whose version 2 request was rejected with code 105, 106
\* or 107 issues no version 1 request, and the error is raised to the caller.
C13_AuthErrorNoFallback ==
    dsOp = "list_tasks" /\ dsV2Err \in {"105", "106", "107"} =>
        dsPc = "done" /\ dsLists = <<2>> /\ dsOutcome = "ApiError"

C13_Witness ==
    dsOp = "list_tasks" /\ dsV2Err = "106" /\ dsPc = "done" /\ dsLists = <<2>>
    /\ dsOutcome = "ApiError"

\* C14: a version 1 create call is issued only after the version 2 create call
\* failed with an older-firmware error code (102, 103 or 104), never after an
\* authorization or not-found error.
C14_V1CreateOnlyForOldFirmware ==
    Len(dsCreates) = 2 => dsV2Err \in {"102", "103", "104"}

\* the last handler that ran was _handle_logout for an endpoint with a session
LogoutRan ==
    regLast.kind \in {"logout_ok", "logout_expired", "logout_failed", "logout_raised"}

\* no session entry and no cached instance is left for the endpoint
Released(ep) == sessions[ep] = 0 /\ fsInst[ep] = 0 /\ dsInst[ep] = 0

\* C15: after a logout of an endpoint that had a session, the session entry and
\* the cached FileStation and DownloadStation instances of the endpoint are gone
\* whatever auth.logout answered, an error code outside the expired set included.
C15_LogoutAlwaysReleases ==
    LogoutRan /\ regLast.ans # "raises" => Released(regLast.ep)

C17_SweepVisitsAll ==
    /\ regPhase = "sweep" =>
          sweepTodo \cup sweepTried = sweepAll /\ sweepTodo \cap sweepTried = {}
    /\ regPhase = "stopped" /\ sweepAll # {} =>
          /\ sweepTried = sweepAll
          /\ Len(sweepResults) = Cardinality(sweepAll)
          /\ \A e \in sweepAll :
                Cardinality({ i \in 1 .. Len(sweepResults) : sweepResults[i].ep = e }) = 1

\* both endpoints had a session, the first logout raised, the second was attempted
C17_Witness ==
    /\ regPhase = "stopped" /\ sweepAll = Endpoints /\ Len(sweepResults) = 2
    /\ sweepResults[1].line = "exception" /\ sweepResults[2].line = "failed"

\* C18: a capability call for an endpoint without a session ends with the
\* no-active-session error, sends no request and creates no instance: every
\* request carried a session id of the registry, and an endpoint without a
\* session has no cached instance.
C18_NoSessionNoCall ==
    /\ \A ep \in Endpoints : sessions[ep] = 0 => fsInst[ep] = 0 /\ dsInst[ep] = 0
    /\ regLast.kind \in {"call_fs", "call_ds"} =>
          regLast.sid # 0 /\ sessions[regLast.ep] # 0
    /\ regLast.kind = "call_nosession" => sessions[regLast.ep] = 0 /\ regLast.sid = 0

\* the call was refused for one endpoint while the other one has a session
C18_Witness ==
    /\ regLast.kind = "call_nosession" /\ regLast.ep = "nas2"
    /\ sessions["nas1"] # 0 /\ sessions["nas2"] = 0
    /\ fsInst["nas2"] = 0 /\ dsInst["nas2"] = 0

\* the tool call t is between the start of its task loop and its return
InTaskLoop(t) == tkPc[t] \in {"poll", "sleep", "stop"}

\* C19: with tool calls in flight at once, every request a capability call sends
\* carries the session id the registry holds for its endpoint: an instance
\* built with a session id that a login has replaced is never used.
C19_NoStaleTokenSent ==
    /\ ~loopStale
    /\ \A t \in Tasks :
          tkPc[t] \in {"start", "poll", "sleep", "stop"} => tkTok[t] = sessions[tkEp[t]]

\* a search is in its poll loop with the current session id, after a login that
\* replaced a session and its instance, while a login for the same endpoint is
\* waiting for the event loop
C19_Witness ==
    \E t \in Tasks, u \in Tasks :
        /\ tkKind[t] = "search" /\ tkPc[t] = "sleep"
        /\ tkTok[t] = sessions[tkEp[t]] /\ regPrev[tkEp[t]].fs # 0
        /\ tkKind[u] = "login" /\ tkPc[u] = "ready" /\ tkEp[u] = tkEp[t]

\* C20: a tool call waiting between two polls of its task loop has given up the
\* event loop, so that another tool call can start and complete meanwhile.
C20_PollLoopYields ==
    \A t \in Tasks : tkPc[t] = "sleep" => loopOwner # t

\* C21: a response without success makes the helper raise an error that carries
\* the error code, and when the envelope has a nested error list the message
\* has each item's code and path in the order of the list; for the helpers of
\* the three modules and the upload helper.
C21_BackendErrorDetailed ==
    envPc = "done" /\ ~envResp.success =>
        /\ envRaised
        /\ envMsg.code = CodeOrUnknown(envResp.code)
        /\ Len(envMsg.details) = Len(envResp.errors)
        /\ \A i \in 1 .. Len(envResp.errors) :
              /\ envMsg.details[i].code = CodeOrUnknown(envResp.errors[i].code)
              /\ envMsg.details[i].path = envResp.errors[i].path

\* the tool call failed: its name is unknown or its handler raised an error
CallFailed ==
    callName \notin KnownTools \/ callDoes \in {"Exception", "KeyError", "HTTPError"}

\* C22: a tool call whose handler fails, or whose name is unknown, gives the
\* shell one text that has the tool name and the error text in it; no
\* exception leaves the call.
C22_FailureIsText ==
    callPc = "done" /\ CallFailed =>
        /\ callOut.kind = "text"
        /\ Contains(callOut.text, <<callName>>)
        /\ IF callName \in KnownTools
           THEN Contains(callOut.text, ExcText(callDoes))
           ELSE Contains(callOut.text, << "Unknown tool:", callName >>)

C22_Witness ==
    /\ callPc = "done" /\ callName = "delete" /\ callDoes = "HTTPError"
    /\ callEntry = "call_tool_direct" /\ callOut.kind = "text"
    /\ callOut.text = << "Error executing", "delete", ":", "502 Server Error: Bad Gateway" >>

\* C23: in every reachable state of the registry, a cached FileStation or
\* DownloadStation instance belongs to an endpoint that has a session, and the
\* session id the instance holds is the one the registry holds for the endpoint.
C23_InstanceMatchesSession ==
    \A ep \in Endpoints :
        /\ fsInst[ep] # 0 => sessions[ep] # 0 /\ fsInst[ep] = sessions[ep]
        /\ dsInst[ep] # 0 => sessions[ep] # 0 /\ dsInst[ep] = sessions[ep]

\* both instances rebuilt after a login that replaced a session and an instance
C23_Witness ==
    \E ep \in Endpoints :
        /\ regPrev[ep].tok # 0 /\ regPrev[ep].fs # 0
        /\ fsInst[ep] = sessions[ep] /\ dsInst[ep] = sessions[ep]
        /\ sessions[ep] # regPrev[ep].tok /\ sessions[ep] # 0

\* C24: delete issues at most 240 status polls and move at most 120; the
\* timed-out error comes after exactly that many, and once the accumulated wait
\* has reached the limit no further status poll is issued.
C24_PollsBounded ==
    fsOp \in {"delete", "move"} =>
        LET limit == IF fsOp = "delete" THEN 240 ELSE 120
        IN /\ nPoll <= limit /\ fsWait <= limit
           /\ fsPc = "poll" => nPoll = fsWait /\ fsWait < limit
           /\ fsPc = "sleep" => nPoll = fsWait + 1
           /\ fsWait = limit => fsPc \in {"stop", "done"} /\ nPoll = limit
           /\ fsOutcome = "TaskTimedOut" => nPoll = limit /\ fsWait = limit

C24_Witness ==
    /\ fsOp = "delete" /\ fsPc = "done" /\ fsOutcome = "TaskTimedOut"
    /\ nPoll = 240 /\ fsWait = 240

\* C29: when a delete or move call is interrupted from outside while it waits
\* between two polls, the stop call for the task id has been issued by the time
\* control leaves the operation.
C29_AbortStillStops ==
    fsOp \in {"delete", "move"} /\ fsPc = "done" /\ fsPending = "Interrupted" =>
        OneStopForTask

\* the answers that end the poll loop of search_files: a finished flag, or an
\* error raised by the request helper
SearchEnding == { "finished", "finished_error", "backend_error", "transport_error" }

C25_SearchState ==
    fsOp = "search" /\ fsTaskId # 0 =>
        /\ fsWait = 0
        /\ fsPending # "TaskTimedOut" /\ fsOutcome # "TaskTimedOut"
        /\ fsPc \in {"stop", "done"} <=> fsLastPoll \in SearchEnding
        /\ fsPc = "done" /\ fsLastPoll \in {"finished", "finished_error"}
               => fsOutcome = "ok" /\ nPoll >= 1

C25_SearchStep ==
    fsOp = "search" /\ fsPc = "sleep" => fsPc' = "poll" /\ nPoll' = nPoll

\* C25: search has no timeout.  A started search has left its poll loop exactly
\* when its last poll reported finished or raised; a poll that reports finished
\* makes it return the result of that poll; after every other answer it sleeps
\* and polls again, however many polls it has made; and when the backend
\* eventually reports finished, the search eventually returns.
C25_SearchNoTimeout ==
    /\ []C25_SearchState
    /\ [][C25_SearchStep]_vars
    /\ (fsOp = "search" /\ fsPc = "poll") ~> (fsOp = "search" /\ fsPc = "done")

\* a search returned the result of a finishing poll that followed polls which
\* reported not finished
C25_Witness ==
    /\ fsOp = "search" /\ fsPc = "done" /\ fsOutcome = "ok"
    /\ fsLastPoll = "finished" /\ nPoll = MaxSearchPolls + 1

\* C26: once the task of a call has reached its outcome (finished, finished
\* with an error, timed out, or a poll that raised), the call issues no further
\* status or list poll: the only request that may follow is the one stop call,
\* and after it the call returns.
C26_NoPollAfterOutcome ==
    [][fsPending # "none" =>
          \/ /\ fsPc = "stop" /\ fsPc' = "done"
             /\ nStop' = nStop + 1 /\ stopTask' = fsTaskId
             /\ nPoll' = nPoll /\ nStart' = nStart /\ nProbe' = nProbe
          \/ fsPc = "done" /\ fsPc' = "idle"]_vars

\* a delete whose task finished with an error made its last poll, then the stop
\* call, and is about to return
C26_Witness ==
    /\ fsOp = "delete" /\ fsPc = "done" /\ fsPending = "TaskFailed"
    /\ fsLastPoll = "finished_error" /\ nPoll = 2 /\ nStop = 1

NoTaskId == [kind |-> "notask", taskid |-> 0]

\* C27: a start response without a task id makes search, delete and move fail
\* with the task-start-failed error, and neither a poll nor a stop call is made.
C27_NoTaskIdNoPollNoStop ==
    /\ [](fsPending = "TaskStartFailed" =>
              /\ fsPc = "done" /\ fsOutcome = "TaskStartFailed"
              /\ fsTaskId = 0 /\ nStart = 1 /\ nPoll = 0 /\ nStop = 0)
    /\ [][StartTask(NoTaskId) =>
              /\ fsPc' = "done" /\ fsOutcome' = "TaskStartFailed"
              /\ nPoll' = 0 /\ nStop' = 0]_vars
    /\ [][fsPending = "TaskStartFailed" => fsPc' = "idle"]_vars

\* a move whose start response carried no task id has failed
C27_Witness ==
    /\ fsOp = "move" /\ fsPc = "done" /\ fsOutcome = "TaskStartFailed"
    /\ nStart = 1 /\ nPoll = 0 /\ nStop = 0

\* C28: delete and move never report success for a task one of whose status
\* responses carried an error field; such a response makes the call fail with
\* the task-failed error, whether or not it is flagged finished.
C28_EmbeddedErrorFails ==
    fsOp \in {"delete", "move"} /\ fsLastPoll \in {"notfinished_error", "finished_error"}
        => fsPending = "TaskFailed"

\* C30: for every input path the formatted path starts with "/" and does not
\* end with "/" unless it is exactly "/"; inputs made only of slashes included.
C30_FormattedIsCanonical ==
    pathPc \in {"once", "twice"} =>
        /\ pathOnce # <<>> /\ pathOnce[1] = Slash
        /\ pathOnce[Len(pathOnce)] = Slash => pathOnce = Root

\* the task-API requests a call may have issued: none yet, version 2, or
\* version 2 followed by version 1
VersionOrders == { <<>>, <<2>>, <<2, 1>> }

\* C31: list_tasks and create_task each issue at most two task-API requests per
\* call: one at version 2 and, only after that one failed, at most one at
\* version 1; version 1 is never tried first and never tried twice.
C31_AtMostTwoRequests ==
    /\ dsLists \in VersionOrders /\ dsCreates \in VersionOrders
    /\ dsLists = <<2, 1>> \/ dsCreates = <<2, 1>> => dsV2Err \notin {"none", "ok"}
    /\ dsPc \in {"list1", "create1"} => dsV2Err \notin {"none", "ok"}
    /\ dsOp = "list_tasks" => dsCreates = <<>>
    /\ dsOp = "create_task" => dsLists = <<>>

\* a create_task call has issued the version 2 request, which failed, and then
\* the version 1 request
C31_Witness ==
    dsOp = "create_task" /\ dsPc = "done" /\ dsCreates = <<2, 1>> /\ dsV2Err = "403"

\* C32: when both the version 2 request and the version 1 fallback of list_tasks
\* fail, the caller gets an error; a backend failure never becomes a successful
\* empty task list.
C32_ListFailureSurfaced ==
    dsOp = "list_tasks" /\ dsPc = "done" /\ dsLists = <<2, 1>> =>
        dsOutcome \in {"tasks_v1", "ApiError", "NetworkError"}

\* C33: a transport failure of the version 2 create or list request is not
\* followed by a version 1 request.
C33_TransportNotRetried ==
    dsV2Err \in {"transport_error", "conn_reset"} =>
        /\ dsPc \notin {"list1", "create1"}
        /\ dsLists # <<2, 1>> /\ dsCreates # <<2, 1>>

\* the requests that change or create something on the NAS
IsMutating(req) ==
    \/ req.api \in {"SYNO.FileStation.Delete", "SYNO.FileStation.CopyMove"}
       /\ req.method = "start"
    \/ req.api = "SYNO.FileStation.Rename" /\ req.method = "rename"
    \/ req.api = "SYNO.FileStation.CreateFolder" /\ req.method = "create"
    \/ req.api = "SYNO.DownloadStation2.Task"
       /\ req.method \in {"create", "delete", "pause", "resume"}
    \/ req.api = "SYNO.Core.ISCSI.LUN" /\ req.method \in {"delete", "unmap_target"}

\* the requests that read, list or ask for a status
IsRead(req) ==
    req.method \in {"list", "list_share", "getinfo", "getconfig", "status", "get",
                    "download"}

\* C34: every backend call of a mutating or creation operation is sent
\* body-style (POST), and every read, listing or status call query-style (GET).
C34_MutationsPosted ==
    \A i \in 1 .. Len(opSent) :
        /\ IsMutating(opSent[i]) => opSent[i].verb = "POST"
        /\ IsRead(opSent[i]) => opSent[i].verb = "GET"

WhitespaceOnly(s) == s # <<>> /\ \A i \in 1 .. Len(s) : s[i] = " "

SeparatorOnly(s) == s # <<>> /\ \A i \in 1 .. Len(s) : s[i] \in {"/", "\\"}

\* the calls the claim names: an empty, whitespace-only or separator-only name
\* for rename and create directory, the root path for create file, a root source
\* or destination for move
InvalidArguments ==
    \/ /\ opName \in {"rename_file", "create_directory"}
       /\ opArgB = <<>> \/ WhitespaceOnly(opArgB) \/ SeparatorOnly(opArgB)
    \/ opName = "create_file" /\ FormatPath(opArgA) = <<"/">>
    \/ /\ opName = "move_file"
       /\ FormatPath(opArgA) = <<"/">> \/ FormatPath(opArgB) = <<"/">>

ValidationErrors == { "NameEmpty", "NameInvalid", "PathInvalid", "FilenameInvalid" }

\* C35: an invalid argument is rejected before any backend call: the operation
\* raises a validation error and has issued no request.
C35_InvalidArgumentNoRequest ==
    /\ InvalidArguments /\ opPc \in {"send", "done"} =>
           opPc = "done" /\ opOutcome \in ValidationErrors /\ opSent = <<>>
    /\ opOutcome \in ValidationErrors => opSent = <<>> /\ opPc = "done"

\* a rename whose new name holds separators only was rejected
C35_Witness ==
    /\ opName = "rename_file" /\ opArgB = <<"/", "\\">> /\ opPc = "done"
    /\ opOutcome = "NameInvalid" /\ opSent = <<>>

\* C36: delete sends recursive=true in the start call exactly when the metadata
\* query before it succeeded and reported a directory; when the query fails for
\* any reason, delete still goes on to the start call, with recursive=false.
C36_RecursiveIffDirectory ==
    /\ [][\A resp \in ProbeResponses :
             DeleteProbe(resp) =>
                 /\ fsRecursive' = (resp = "dir")
                 /\ fsPc' = "start" /\ nStart' = 0]_vars
    /\ [][\A resp \in StartResponses :
             StartTask(resp) => fsRecursive' = fsRecursive /\ nStart' = 1]_vars
    /\ [](fsOp = "delete" /\ nStart = 1 => nProbe = 1)
    /\ [](fsOp # "delete" => ~fsRecursive)

\* a delete whose metadata query reported a directory has sent its start call
\* with recursive=true
C36_Witness ==
    fsOp = "delete" /\ fsRecursive /\ nProbe = 1 /\ nStart = 1 /\ fsPc = "poll"

\* the canonical path lies strictly below a critical path or merely shares its
\* prefix: it starts with the critical path's text without being equal to it
ExtendsCritical(p) ==
    /\ p \notin CriticalPaths
    /\ \E c \in CriticalPaths : Len(c) < Len(p) /\ SubSeq(p, 1, Len(c)) = c

\* C37: the critical-path refusal of delete is an exact match only: a path
\* strictly below a critical path or merely sharing its prefix is not refused
\* and goes on to the metadata probe and the delete start call.
C37_BelowCriticalNotRefused ==
    fsOp = "delete" /\ ExtendsCritical(FormatPath(fsPath)) =>
        /\ fsOutcome # "ValidationError"
        /\ fsPc \in {"probe", "start", "poll", "sleep", "stop", "done"}
        /\ fsPc # "probe" => nProbe = 1
        /\ fsPc \notin {"probe", "start"} => nStart = 1

\* a delete of /variable, which shares the prefix of /var, has sent its start call
C37_Witness ==
    fsOp = "delete" /\ fsPath = P_variable /\ nProbe = 1 /\ nStart = 1 /\ fsPc = "poll"

\* the preferred default followed by the fixed ordered list of the claim
DefaultOrder == << dsPreferred, "video", "music", "software", "documents", "photos",
                   "backup" >>

\* the positions whose probe reported an existing directory
FoundAt == { i \in 1 .. Len(dsDefaultSaw) : dsDefaultSaw[i] = "dir" }

C38_DefaultChosen ==
    dsOp = "create_task" /\ dsArg = "" /\ dsPc = "validate" =>
        /\ \A i \in 1 .. Len(dsDefaultSaw) :
              /\ dsDefaultSaw[i] = "dir" => DefaultOrder[i] \in dsExists
              /\ dsDefaultSaw[i] = "missing" => DefaultOrder[i] \notin dsExists
        /\ IF FoundAt # {}
           THEN /\ FoundAt = { Len(dsDefaultSaw) }
                /\ dsDest = DefaultOrder[Len(dsDefaultSaw)]
           ELSE Len(dsDefaultSaw) = 7 /\ dsDest = dsPreferred

C39_RejectedLoginKeepsRegistry ==
    [][\A ep \in Endpoints :
          Login(ep, "rejected") =>
              /\ sessions' = sessions /\ fsInst' = fsInst /\ dsInst' = dsInst
              /\ regLast'.kind = "login_fail"]_vars

\* a rejected login at an endpoint that holds a session and a cached FileStation
C39_Witness ==
    /\ regLast.kind = "login_fail" /\ regLast.ans = "rejected"
    /\ sessions[regLast.ep] # 0 /\ fsInst[regLast.ep] = sessions[regLast.ep]

\* C40: when the shutdown sweep has returned, the registry holds no session and
\* no cached FileStation or DownloadStation instance for any endpoint, whatever
\* each remote logout answered or raised.
C40_SweepLeavesNothing ==
    regPhase = "stopped" =>
        \A ep \in Endpoints : sessions[ep] = 0 /\ fsInst[ep] = 0 /\ dsInst[ep] = 0

====
